---- MODULE Spec2Model ----
(***************************************************************************)
(* Fiber-face image analysis (rpetersburg/FiberProperties).                *)
(*                                                                         *)
(* The module models these parts of the repository, each with its own      *)
(* specification over the shared variable list:                            *)
(*   SpecCalibration   Calibration.executeErrorCorrections (Calibration.py)*)
(*   SpecEdges         ImageAnalysis.setFiberCenterEdgeMethod              *)
(*   SpecFiberImage    the option-keyed result cache of FiberImage         *)
(*   SpecFiberQueries  the FiberImage getters called without a method      *)
(*   SpecThreads       two threads inside the FiberImage getters           *)
(*   SpecImageAnalysis the per-method result cache of ImageAnalysis        *)
(*   SpecGetters       the ImageAnalysis getters called without a method   *)
(*   SpecSearch        the golden-section searches, one iteration a step   *)
(* A specification leaves the variables of the other parts at their        *)
(* initial values.                                                         *)
(*                                                                         *)
(* Numbers.  Pixel values are floats in the source.  Calibration is        *)
(* modelled with exact rationals <<n, d>> in lowest terms, d >= 0; the     *)
(* IEEE values numpy produces on a division by zero are the rationals with *)
(* denominator 0: <<1,0>> is inf, <<-1,0>> is -inf and <<0,0>> is nan.     *)
(* The positions and lengths of ImageAnalysis are fixed-point integers in  *)
(* units of 1/Scale pixel.  A Python None is the empty tuple <<>> and a    *)
(* value v that may be None is the one-element tuple <<v>>.                *)
(***************************************************************************)
EXTENDS Integers, Sequences, FiniteSets, TLC

VARIABLES
    \* Calibration (src/Calibration.py)
    dark_image,         \* self.dark_image: NoImage or an array
    flat_image,         \* self.flat_image
    ambient_image,      \* self.ambient_image
    ambient_exp_time,   \* self._ambient_exp_time: 0 when the attribute is unset
    cal_ctor,           \* the references the Calibration was constructed with
    cal_call,           \* the last executeErrorCorrections call and what it returned
    \* ImageAnalysis (src/ImageAnalysis.py)
    filtered_image,     \* self._filtered_image: rows of pixel values
    threshold,          \* self._analysis_info['threshold']
    ia_camera,          \* self._image_info['camera']
    ia_pixel_size,      \* self._image_info['pixel_size']
    ia_magnification,   \* self._image_info['magnification']
    ia_saved,           \* the dictionary saveData has pickled, None before
    ia_edges,           \* self._edges: left, right, top, bottom
    ia_center,          \* self._center: method -> x, y
    ia_diameter,        \* self._diameter: method -> value
    ia_array_sum,       \* self._array_sum: radius and circle
    ia_centroid,        \* self._centroid: method -> x, y
    ia_call,            \* the last public call on the object and how it ended
    ia_search,          \* the local variables of a golden-section search in progress
    \* FiberImage (src/fiber_properties/fiber_image.py)
    fi_camera,          \* self.camera
    fi_center,          \* self._center: method -> cached centre
    fi_centroid,        \* self._centroid: method -> cached centroid
    fi_diameter,        \* self._diameter: method -> cached diameter
    fi_options,         \* self._options: method -> the keyword options recorded
    fi_runs,            \* how often fiber_center_and_diameter has been run
    fi_call,            \* the last public call on the object and how it ended
    fi_threads          \* thread -> the query it is in and where in it

cal_vars == <<dark_image, flat_image, ambient_image, ambient_exp_time, cal_ctor, cal_call>>

ia_vars == <<filtered_image, threshold, ia_camera, ia_pixel_size,
             ia_magnification, ia_saved, ia_edges, ia_center,
             ia_diameter, ia_array_sum, ia_centroid, ia_call, ia_search>>

fi_vars == <<fi_camera, fi_center, fi_centroid, fi_diameter, fi_options,
             fi_runs, fi_call, fi_threads>>

vars == <<cal_vars, ia_vars, fi_vars>>

(***************************************************************************)
(* Bounds                                                                  *)
(***************************************************************************)
\* largest raw pixel value of an image to correct and of a flat reference
MaxPix == 2
\* largest raw pixel value of a dark or ambient reference
MaxRef == 1
\* largest exposure time
MaxExp == 2

\* largest pixel value of a filtered image, and largest threshold
EdgeMax == 1
\* positions and lengths of ImageAnalysis are fixed-point numbers: a stored
\* value v stands for v / Scale pixels, Scale = 2 * HalfScale
HalfScale == 50

\* how many estimator runs one FiberImage behaviour may hold
MaxRuns == 3

\* how many estimator runs a behaviour of the queries may hold
MaxQueryRuns == 2

\* a tolerance is a multiple of 1/TolDen of the spacing of the positions
TolDen == 2

\* widths of the one-row arrays given to Calibration
Shapes == {1, 2}

(***************************************************************************)
(* Rational arithmetic with the IEEE specials                              *)
(***************************************************************************)
Abs(n) == IF n < 0 THEN -n ELSE n

Sign(n) == IF n > 0 THEN 1 ELSE IF n < 0 THEN -1 ELSE 0

RECURSIVE GCD(_, _)
GCD(a, b) == IF b = 0 THEN a ELSE GCD(b, a % b)

\* <<n, d>> in lowest terms with d >= 0; d = 0 gives inf, -inf or nan
Norm(n, d) ==
    IF d = 0 THEN <<Sign(n), 0>>
    ELSE LET g == GCD(Abs(n), Abs(d))
             s == Sign(d)
         IN  <<(s * n) \div g, (s * d) \div g>>

Rat(k) == <<k, 1>>

RSub(a, b) == Norm(a[1] * b[2] - b[1] * a[2], a[2] * b[2])

RMul(a, b) == Norm(a[1] * b[1], a[2] * b[2])

RDiv(a, b) == Norm(a[1] * b[2], a[2] * b[1])

\* r > 0.0 as numpy evaluates it: False for nan
RPos(r) == r[1] > 0

IsFinite(r) == r[2] > 0

(***************************************************************************)
(* Arrays: one-row images as sequences of pixel values                     *)
(***************************************************************************)
NoImage == <<>>

RECURSIVE SeqsOf(_, _)
SeqsOf(S, n) ==
    IF n = 0 THEN {<<>>}
    ELSE {Append(s, x) : s \in SeqsOf(S, n - 1), x \in S}

\* the arrays of width n with integer pixel values 0..max
ImagesOf(n, max) == SeqsOf({Rat(k) : k \in 0..max}, n)

Images == UNION {ImagesOf(n, MaxPix) : n \in Shapes}

\* numpy broadcasting of two one-row arrays
Broadcastable(a, b) == Len(a) = Len(b) \/ Len(a) = 1 \/ Len(b) = 1

BLen(a, b) == IF Len(a) >= Len(b) THEN Len(a) ELSE Len(b)

At(a, i) == IF Len(a) = 1 THEN a[1] ELSE a[i]

ArrSub(a, b) == [i \in 1..BLen(a, b) |-> RSub(At(a, i), At(b, i))]

ArrMul(a, b) == [i \in 1..BLen(a, b) |-> RMul(At(a, i), At(b, i))]

ArrScale(a, k) == [i \in 1..Len(a) |-> RMul(a[i], k)]

ArrDivBy(a, k) == [i \in 1..Len(a) |-> RDiv(a[i], k)]

\* k / a, element-wise
ArrRecip(k, a) == [i \in 1..Len(a) |-> RDiv(k, a[i])]

RECURSIVE ArrSum(_)
ArrSum(a) ==
    IF a = <<>> THEN Rat(0)
    ELSE LET h == a[1]
             t == ArrSum(Tail(a))
         IN  Norm(h[1] * t[2] + t[1] * h[2], h[2] * t[2])

ArrMean(a) == RDiv(ArrSum(a), Rat(Len(a)))

ZerosLike(a) == [i \in 1..Len(a) |-> Rat(0)]

\* (output_array > 0.0).astype('float64')
PositiveMask(a) == [i \in 1..Len(a) |-> IF RPos(a[i]) THEN Rat(1) ELSE Rat(0)]

(***************************************************************************)
(* Calibration (src/Calibration.py)                                        *)
(***************************************************************************)
Ok(a) == [outcome |-> "ok", image |-> a]

Raise(e) == [outcome |-> e, image |-> NoImage]

\* removeDarkImage without the clamp of line 95
RemoveDarkImageUnclamped(image_array, dark) == ArrSub(image_array, dark)

\* removeDarkImage(image_array, dark_image), the shapes being broadcastable
RemoveDarkImage(image_array, dark) ==
    LET output_array == ArrSub(image_array, dark)
    IN  ArrMul(output_array, PositiveMask(output_array))

\* line 66: corrected_image = self.removeDarkImage(image)
DarkStep(image, dark) ==
    IF ~Broadcastable(image, dark) THEN Raise("ValueError")
    ELSE Ok(RemoveDarkImage(image, dark))

\* lines 68-73: exp_time = 0 stands for exp_time=None, amb_exp = 0 for a
\* Calibration whose _ambient_exp_time was never set
AmbientStep(r, exp_time, dark, ambient, amb_exp) ==
    IF r.outcome # "ok" \/ ambient = NoImage THEN r
    ELSE IF ~Broadcastable(ambient, dark) THEN Raise("ValueError")
    ELSE IF exp_time # 0 /\ amb_exp = 0 THEN Raise("AttributeError")
    ELSE LET corrected_ambient == RemoveDarkImage(ambient, dark)
             scaled == IF exp_time = 0 THEN corrected_ambient
                       ELSE ArrDivBy(ArrScale(corrected_ambient, Rat(exp_time)),
                                     Rat(amb_exp))
         IN  IF ~Broadcastable(r.image, scaled) THEN Raise("ValueError")
             ELSE Ok(RemoveDarkImage(r.image, scaled))

\* lines 75-77: corrected_image *= corrected_flat_image.mean() / corrected_flat_image
\* (in place: the factor must broadcast to the shape of corrected_image)
FlatStep(r, dark, flat) ==
    IF r.outcome # "ok" \/ flat = NoImage THEN r
    ELSE IF ~Broadcastable(flat, dark) THEN Raise("ValueError")
    ELSE LET corrected_flat_image == RemoveDarkImage(flat, dark)
             factor == ArrRecip(ArrMean(corrected_flat_image), corrected_flat_image)
         IN  IF Len(factor) # Len(r.image) /\ Len(factor) # 1 THEN Raise("ValueError")
             ELSE Ok(ArrMul(r.image, factor))

\* the flat normalisation applied before the ambient subtraction
CorrectedFlatFirst(image, exp_time, dark, ambient, flat, amb_exp) ==
    AmbientStep(FlatStep(DarkStep(image, dark), dark, flat),
                exp_time, dark, ambient, amb_exp)

\* what executeErrorCorrections returns, self.dark_image being dark
Corrected(image, exp_time, dark, ambient, flat, amb_exp) ==
    FlatStep(AmbientStep(DarkStep(image, dark), exp_time, dark, ambient, amb_exp),
             dark, flat)

EffectiveDark(stored, image) ==
    IF stored = NoImage THEN ZerosLike(image) ELSE stored

(***************************************************************************)
(* ImageAnalysis (src/ImageAnalysis.py): the edge method                   *)
(***************************************************************************)
None == <<>>

Some(v) == <<v>>

Scale == 2 * HalfScale

\* self._image_info['width'] and ['height'] of the modelled image
Width == 3

Height == 3

\* the names under which _center and _diameter keep a result
Methods == {"edge", "radius", "circle", "gaussian"}

\* a call that passes no method
NoMethod == "None"

\* near field, input and far field
Cameras == {"nf", "in", "ff"}

RECURSIVE MaxOf(_)
MaxOf(s) ==
    IF Len(s) = 1 THEN s[1]
    ELSE LET m == MaxOf(Tail(s)) IN IF s[1] >= m THEN s[1] ELSE m

\* self._filtered_image[:, index].max(), index counted from 0
ColumnMax(img, index) == MaxOf([r \in 1..Len(img) |-> img[r][index + 1]])

\* self._filtered_image[index, :].max()
RowMax(img, index) == MaxOf(img[index + 1])

\* lines 732-740 (and 742-750): the loop over the column (row) maxima
RECURSIVE Scan(_, _, _, _, _)
Scan(maxes, thr, index, first, last) ==
    IF index = Len(maxes) THEN <<first, last>>
    ELSE IF first < 0
         THEN Scan(maxes, thr, index + 1,
                   IF maxes[index + 1] > thr THEN index ELSE first, last)
         ELSE Scan(maxes, thr, index + 1, first,
                   IF maxes[index + 1] > thr THEN index ELSE last)

ColumnMaxima(img) == [c \in 1..Width |-> ColumnMax(img, c - 1)]

RowMaxima(img) == [r \in 1..Height |-> RowMax(img, r - 1)]

\* the docstring's diameter: the larger of the two spans
EdgeDiameterMax(left, right, top, bottom) ==
    IF right - left >= bottom - top THEN (right - left) * Scale
    ELSE (bottom - top) * Scale

\* line 756: ((right - left) + (bottom - top)) / 2.0
EdgeDiameter(left, right, top, bottom) ==
    ((right - left) + (bottom - top)) * HalfScale

\* lines 714-715: (a + b) / 2.0
Midpoint(a, b) == (a + b) * HalfScale

\* the fields of the object that the methods below read and write
Obj == [edges |-> ia_edges, center |-> ia_center, diameter |-> ia_diameter,
        array_sum |-> ia_array_sum, centroid |-> ia_centroid,
        pixel_size |-> ia_pixel_size, magnification |-> ia_magnification,
        method |-> "none", outcome |-> "ok", units |-> "pixels",
        returned |-> None]

\* setFiberEdges() on the object o
SetFiberEdges(o) ==
    LET lr == Scan(ColumnMaxima(filtered_image), threshold, 0, -1, -1)
        tb == Scan(RowMaxima(filtered_image), threshold, 0, -1, -1)
    IN  [o EXCEPT
           !.edges = [left |-> Some(lr[1]), right |-> Some(lr[2]),
                      top |-> Some(tb[1]), bottom |-> Some(tb[2])],
           !.diameter["edge"] = Some(EdgeDiameter(lr[1], lr[2], tb[1], tb[2]))]

\* setFiberCenterEdgeMethod() on the object o
SetFiberCenterEdgeMethod(o) ==
    LET e == SetFiberEdges(o)
    IN  [e EXCEPT
           !.center["edge"] =
               [x |-> Some(Midpoint(e.edges.left[1], e.edges.right[1])),
                y |-> Some(Midpoint(e.edges.top[1], e.edges.bottom[1]))]]

(***************************************************************************)
(* ImageAnalysis: the circle, radius and gaussian methods                  *)
(*                                                                         *)
(* An objective value is a fixed-point integer in units of 1/SumUnit, so   *)
(* that the area penalty threshold * pi * r^2 of the radius method is an   *)
(* integer for a radius in units of 1/Scale.                               *)
(***************************************************************************)
\* self._phi = (5 ** 0.5 - 1) / 2, as PhiNum / PhiDen
PhiNum == 618

PhiDen == 1000

\* np.pi, as PiNum / PiDen
PiNum == 355

PiDen == 113

SumUnit == Scale * Scale * PiDen

\* n / d rounded to the nearest integer, as a float operation rounds its
\* result to the nearest representable number
Nearest(n, d) == Sign(n) * ((2 * Abs(n) + d) \div (2 * d))

\* self._phi * d and (1 - self._phi) * d
TimesPhi(d) == Nearest(d * PhiNum, PhiDen)

TimesOneMinusPhi(d) == Nearest(d * (PhiDen - PhiNum), PhiDen)

\* abs(span) > tol; the tolerance is a float that can be finer than the
\* positions are, and is counted in units of 1/(Scale * TolDen) pixel
Exceeds(span, tol) == Abs(span) * TolDen > tol

\* F applied to the value of v, which is computed once
Then(v, F(_)) == CHOOSE result \in {F(x) : x \in {v}} : TRUE

\* a pixel of removeCircle(image, x0, y0, radius, res=1) is blanked when its
\* centre lies in the disk; column c and row r are counted from 0
InDisk(c, r, x0, y0, radius) ==
    (c * Scale - x0) * (c * Scale - x0) + (r * Scale - y0) * (r * Scale - y0)
        <= radius * radius

\* sumArray(array), over the pixels in row-major order
RECURSIVE SumArray(_)
SumArray(pixels) ==
    IF pixels = <<>> THEN 0 ELSE pixels[1] + SumArray(Tail(pixels))

\* sumArray(removeCircle(self._filtered_image, x0, y0, radius, res))
RemovedCircleSum(x0, y0, radius) ==
    SumUnit * SumArray([k \in 1..(Width * Height) |->
        LET r == (k - 1) \div Width
            c == (k - 1) % Width
        IN  IF InDisk(c, r, x0, y0, radius) THEN 0 ELSE filtered_image[r + 1][c + 1]])

\* getFiberCenter(method='edge', show_image=False): lines 268-269
EnsureEdgeCenter(o) ==
    IF o.center["edge"].x = None THEN SetFiberCenterEdgeMethod(o) ELSE o

\* lines 220-226: the method a diameter query without a method resolves to
DiameterMethod(o) ==
    IF o.diameter["radius"] # None THEN "radius"
    ELSE IF o.diameter["gaussian"] # None THEN "gaussian"
    ELSE "edge"

\* getFiberRadius() with no method: lines 206, 220-229.  The method found
\* uncached can only be the edge method.
EnsureDiameter(o) ==
    IF o.diameter[DiameterMethod(o)] = None THEN SetFiberCenterEdgeMethod(o) ELSE o

FiberRadius(o) == o.diameter[DiameterMethod(o)][1] \div 2

Lower(a, b) == IF a < b THEN a ELSE b

Higher(a, b) == IF a > b THEN a ELSE b

\* lines 649-653, 570-571: the two interior points of [p0, p3]
Bracket(p0, p3) ==
    <<p0, p0 + TimesOneMinusPhi(p3 - p0), p0 + TimesPhi(p3 - p0), p3>>

\* lines 669-684, 581-588: the bracket moved towards its lower (index 0) or
\* upper interior point
Shrink(p, index) ==
    IF index = 0
    THEN <<p[1], p[1] + TimesOneMinusPhi(p[3] - p[1]), p[2], p[3]>>
    ELSE <<p[2], p[3], p[2] + TimesPhi(p[4] - p[2]), p[4]>>

\* np.unravel_index(np.argmin(array_sum), (2, 2)): the first smallest entry
\* in row-major order; a is indexed [j][i] from 0
ArgMin2D(a) ==
    LET k == CHOOSE n \in 0..3 :
                 /\ \A q \in 0..3 : a[n \div 2][n % 2] <= a[q \div 2][q % 2]
                 /\ \A q \in 0..(n - 1) : a[q \div 2][q % 2] > a[n \div 2][n % 2]
    IN  <<k \div 2, k % 2>>

\* the index of the larger of two entries
ArgMaxOfTwo(a) == IF a[1] >= a[2] THEN 0 ELSE 1

\* the index of the smaller of two entries, the upper one on a tie
ArgMinUpper(a) == IF a[1] < a[2] THEN 0 ELSE 1

\* np.argmin of a two-element array: 0 or 1
ArgMin1D(a) == IF a[1] <= a[2] THEN 0 ELSE 1

\* lines 624-647: x[0], x[3], y[0] and y[3]; half_range is None or the
\* test_range handed to the method
CircleBounds(o, radius, half_range) ==
    LET cx == o.center["edge"].x[1]
        cy == o.center["edge"].y[1]
        tr == IF half_range = None THEN 0 ELSE half_range[1] \div 2
    IN  [x0 |-> IF half_range = None THEN radius ELSE Higher(cx - tr, radius),
         x3 |-> IF half_range = None THEN Width * Scale - radius
                ELSE Lower(cx + tr, Width * Scale - radius),
         y0 |-> IF half_range = None THEN radius ELSE Higher(cy - tr, radius),
         y3 |-> IF half_range = None THEN Height * Scale - radius
                ELSE Lower(cy + tr, Height * Scale - radius)]

\* the indices [j, i] of array_sum in the centre search
Corners == {<<j, i>> : j \in 0..1, i \in 0..1}

\* lines 620-665: the corners and their sums before the loop
CircleInit(o, radius, half_range) ==
    LET b == CircleBounds(o, radius, half_range)
    IN  Then(Bracket(b.x0, b.x3), LAMBDA x :
        Then(Bracket(b.y0, b.y3), LAMBDA y :
        Then([j \in 0..1 |-> [i \in 0..1 |->
                 RemovedCircleSum(x[i + 2], y[j + 2], radius)]], LAMBDA sums :
            [x |-> x, y |-> y, array_sum |-> sums, min_index |-> ArgMin2D(sums),
             evaluated |-> Corners])))

\* a step that evaluates all four corners anew
CircleStepAnew(st, radius) ==
    Then(Shrink(st.y, st.min_index[1]), LAMBDA y :
    Then(Shrink(st.x, st.min_index[2]), LAMBDA x :
    Then([j \in 0..1 |-> [i \in 0..1 |->
             RemovedCircleSum(x[i + 2], y[j + 2], radius)]], LAMBDA sums :
        [x |-> x, y |-> y, array_sum |-> sums, min_index |-> ArgMin2D(sums),
         evaluated |-> Corners])))

\* a step that leaves the carried sum at the corner it was found at
CircleStepInPlace(st, radius) ==
    LET kept == st.min_index
    IN  Then(Shrink(st.y, st.min_index[1]), LAMBDA y :
        Then(Shrink(st.x, st.min_index[2]), LAMBDA x :
        Then([j \in 0..1 |-> [i \in 0..1 |->
                 IF i # kept[2] \/ j # kept[1]
                 THEN RemovedCircleSum(x[i + 2], y[j + 2], radius)
                 ELSE st.array_sum[st.min_index[1]][st.min_index[2]]]], LAMBDA sums :
            [x |-> x, y |-> y, array_sum |-> sums, min_index |-> ArgMin2D(sums),
             evaluated |-> Corners \ {kept}])))

\* lines 668-699: one iteration of the loop.  evaluated: the corners [j, i]
\* removeCircle and sumArray are called for, all but the one opposite the
\* minimum, which takes the sum of the minimum
CircleStep(st, radius) ==
    LET kept == <<1 - st.min_index[1], 1 - st.min_index[2]>>
    IN  Then(Shrink(st.y, st.min_index[1]), LAMBDA y :
        Then(Shrink(st.x, st.min_index[2]), LAMBDA x :
        Then([j \in 0..1 |-> [i \in 0..1 |->
                 IF i # kept[2] \/ j # kept[1]
                 THEN RemovedCircleSum(x[i + 2], y[j + 2], radius)
                 ELSE st.array_sum[st.min_index[1]][st.min_index[2]]]], LAMBDA sums :
            [x |-> x, y |-> y, array_sum |-> sums, min_index |-> ArgMin2D(sums),
             evaluated |-> {c \in Corners : c[2] # kept[2] \/ c[1] # kept[1]}])))

\* line 667: the loop condition
CircleContinues(st, tol) ==
    Exceeds(st.x[4] - st.x[1], tol) /\ Exceeds(st.y[4] - st.y[1], tol)

RECURSIVE CircleLoop(_, _, _)
CircleLoop(st, radius, tol) ==
    IF CircleContinues(st, tol)
    THEN Then(CircleStep(st, radius),
              LAMBDA next : CircleLoop(next, radius, tol))
    ELSE st

\* setFiberCenterCircleMethod(radius, tol, test_range) on the object o
SetFiberCenterCircleMethod(o, radius, tol, test_range) ==
    Then(IF test_range = None THEN o ELSE EnsureEdgeCenter(o), LAMBDA o1 :
    Then(CircleInit(o1, radius, test_range), LAMBDA st0 :
    Then(CircleLoop(st0, radius, tol), LAMBDA st :
        [o1 EXCEPT
           !.center["circle"] = [x |-> Some(st.x[st.min_index[2] + 2]),
                                 y |-> Some(st.y[st.min_index[1] + 2])],
           !.diameter["circle"] = Some(radius * 2),
           !.array_sum["circle"] =
               Some(st.array_sum[st.min_index[1]][st.min_index[2]])])))

\* lines 576, 593-594: the sum just stored by the circle method plus
\* threshold * pi * r^2
RadiusObjective(o, r) ==
    o.array_sum["circle"][1] + threshold * PiNum * r * r

\* lines 573-576, 592-594: the circle method run for the trial radius r, and
\* the objective of that radius
RadiusTrial(o, r, tol, half_range) ==
    Then(SetFiberCenterCircleMethod(o, r, tol, half_range), LAMBDA o1 :
        [o |-> o1, sum |-> RadiusObjective(o1, r)])

\* lines 558-568: r[0] and r[3]; o0 is the object after getFiberRadius()
RadiusBounds(o0, test_range) ==
    IF test_range = None
    THEN [r0 |-> 0, r3 |-> (Lower(Height, Width) * Scale) \div 2]
    ELSE [r0 |-> Higher(FiberRadius(o0) - test_range[1] \div 2, 0),
          r3 |-> FiberRadius(o0) + test_range[1] \div 2]

\* lines 582-596: array_sum after the trial of the new interior point
ReplaceSum(array_sum, min_index, sum) ==
    IF min_index = 0 THEN <<sum, array_sum[1]>> ELSE <<array_sum[2], sum>>

\* lines 556-578: the bracket of radii and the two trials before the loop
RadiusInit(o, tol, test_range) ==
    LET half_range == IF test_range = None THEN None ELSE Some(test_range[1] \div 2)
    IN  Then(IF test_range = None THEN o ELSE EnsureDiameter(o), LAMBDA o0 :
        LET b == RadiusBounds(o0, test_range)
        IN  Then(Bracket(b.r0, b.r3), LAMBDA r :
            Then(RadiusTrial(o0, r[2], tol, half_range), LAMBDA t0 :
            Then(RadiusTrial(t0.o, r[3], tol, half_range), LAMBDA t1 :
                [o |-> t1.o, r |-> r, array_sum |-> <<t0.sum, t1.sum>>,
                 min_index |-> ArgMin1D(<<t0.sum, t1.sum>>),
                 half_range |-> half_range, evaluated |-> {0, 1}]))))

\* lines 581-596: one iteration of the loop
RadiusStep(st, tol) ==
    Then(Shrink(st.r, st.min_index), LAMBDA r :
    Then(RadiusTrial(st.o, r[st.min_index + 2], tol, st.half_range),
         LAMBDA t :
    Then(ReplaceSum(st.array_sum, st.min_index, t.sum), LAMBDA sums :
        [st EXCEPT !.o = t.o, !.r = r, !.array_sum = sums,
                   !.min_index = ArgMin1D(sums),
                   !.evaluated = {st.min_index}])))

\* line 580: the loop condition
RadiusContinues(st, tol) == Exceeds(st.r[4] - st.r[1], tol)

RECURSIVE RadiusLoop(_, _)
RadiusLoop(st, tol) ==
    IF RadiusContinues(st, tol)
    THEN Then(RadiusStep(st, tol),
              LAMBDA next : RadiusLoop(next, tol))
    ELSE st

\* setFiberCenterRadiusMethod(tol, test_range) on the object o
SetFiberCenterRadiusMethod(o, tol, test_range) ==
    Then(RadiusInit(o, tol, test_range), LAMBDA st0 :
    Then(RadiusLoop(st0, tol), LAMBDA st :
        [st.o EXCEPT
           !.diameter["radius"] = Some(st.r[st.min_index + 2] * 2),
           !.center["radius"] = st.o.center["circle"],
           !.array_sum["radius"] = Some(st.array_sum[ArgMin1D(st.array_sum) + 1])]))

\* gaussianFit(image_array, initial_guess, full_output=True): the fitted x0,
\* y0 and radius.  The fit is taken to converge at its initial guess.
GaussianFit(x0, y0, radius) == [x0 |-> x0, y0 |-> y0, radius |-> radius]

\* setFiberCenterGaussianMethod() on the object o
SetFiberCenterGaussianMethod(o) ==
    Then(EnsureEdgeCenter(o), LAMBDA o1 :
    Then(EnsureDiameter(o1), LAMBDA o2 :
    Then(GaussianFit(o1.center["edge"].x[1], o1.center["edge"].y[1],
                     FiberRadius(o2)), LAMBDA opt :
        [o2 EXCEPT
           !.center["gaussian"] = [x |-> Some(opt.x0), y |-> Some(opt.y0)],
           !.diameter["gaussian"] = Some(opt.radius * 2)])))

\* setFiberCenter(method, tol, test_range, radius) on the object o
SetFiberCenter(o, method, tol, test_range, radius) ==
    CASE method = "radius" -> SetFiberCenterRadiusMethod(o, tol, test_range)
      [] method = "edge" -> SetFiberCenterEdgeMethod(o)
      [] method = "circle" -> SetFiberCenterCircleMethod(o, radius, tol, test_range)
      [] method = "gaussian" -> SetFiberCenterGaussianMethod(o)

(***************************************************************************)
(* ImageAnalysis: the getters and the centroid                             *)
(***************************************************************************)
\* lines 258-266: the method a centre query without a method resolves to
CenterMethod(o) ==
    IF o.center["radius"].x # None THEN "radius"
    ELSE IF o.center["gaussian"].x # None THEN "gaussian"
    ELSE IF o.center["circle"].x # None THEN "circle"
    ELSE "edge"

\* setFiberCenter(method, **kwargs) as the getters call it: tol and radius
\* are None when the caller passes none.  A radius of None reaches the
\* arithmetic of the circle method, which raises TypeError.
SetFiberCenterWith(o, method, args) ==
    IF method = "circle" /\ args.radius = None
    THEN [o EXCEPT !.outcome = "TypeError"]
    ELSE SetFiberCenter(o, method,
                        IF args.tol = None THEN Scale * TolDen ELSE args.tol[1],
                        args.test_range,
                        IF args.radius = None THEN 0 ELSE args.radius[1])

\* setFiberDiameter(method, **kwargs) on the object o
setFiberDiameter(o, method, args) ==
    IF method = "circle" THEN [o EXCEPT !.outcome = "RuntimeError"]
    ELSE SetFiberCenterWith(o, method, args)

\* getFiberCenter(method, **kwargs) on the object o
getFiberCenter(o, method, args) ==
    LET m == IF method = NoMethod THEN CenterMethod(o) ELSE method
    IN  IF o.center[m].x = None \/ m = "circle"
        THEN SetFiberCenterWith([o EXCEPT !.method = m], m, args)
        ELSE [o EXCEPT !.method = m]

\* getFiberDiameter(method, **kwargs) on the object o
getFiberDiameter(o, method, args) ==
    LET m == IF method = NoMethod THEN DiameterMethod(o) ELSE method
    IN  IF o.diameter[m] = None
        THEN setFiberDiameter([o EXCEPT !.method = m], m, args)
        ELSE [o EXCEPT !.method = m]

\* isolateCircle(self.image, x0, y0, radius, res=1): the pixels outside the
\* disk are blanked.  The image is the filtered image of the model; the
\* result lists the pixels in row-major order.
IsolateCircle(x0, y0, radius) ==
    [k \in 1..(Width * Height) |->
        LET r == (k - 1) \div Width
            c == (k - 1) % Width
        IN  IF InDisk(c, r, x0, y0, radius) THEN filtered_image[r + 1][c + 1] ELSE 0]

\* the whole image in the same order
WholeImage ==
    [k \in 1..(Width * Height) |->
        filtered_image[((k - 1) \div Width) + 1][((k - 1) % Width) + 1]]

\* lines 442-443: (image_array_iso * x_array).sum() / image_array_iso.sum(),
\* in pixels, as an exact rational (nan for an image that sums to zero)
WeightedMean(pixels) ==
    [x |-> Some(Norm(SumArray([k \in 1..Len(pixels) |->
                              pixels[k] * ((k - 1) % Width)]),
                     SumArray(pixels))),
     y |-> Some(Norm(SumArray([k \in 1..Len(pixels) |->
                              pixels[k] * ((k - 1) \div Width)]),
                     SumArray(pixels)))]

\* setFiberCentroid(method, **kwargs) on the object o
setFiberCentroid(o, method, args) ==
    IF method = "full"
    THEN [o EXCEPT !.centroid["full"] = WeightedMean(WholeImage)]
    ELSE Then(getFiberCenter(o, method, args), LAMBDA o1 :
         IF o1.outcome # "ok" THEN o1
         ELSE Then(getFiberDiameter(o1, method, args), LAMBDA o2 :
              IF o2.outcome # "ok" THEN o2
              ELSE [o2 EXCEPT !.centroid[method] =
                       WeightedMean(IsolateCircle(o1.center[method].x[1],
                                                  o1.center[method].y[1],
                                                  o2.diameter[method][1] \div 2))]))

\* lines 288-298: the method a centroid query without a method resolves
\* to.  Line 291 reads self.centroid, an attribute the object does not
\* have: the query raises AttributeError when it gets that far.
CentroidMethod(o) ==
    IF o.centroid["radius"].x # None THEN "radius" ELSE "AttributeError"

\* getFiberCentroid(method, **kwargs) on the object o
getFiberCentroid(o, method, args) ==
    LET m == IF method = NoMethod THEN CentroidMethod(o) ELSE method
    IN  IF m = "AttributeError" THEN [o EXCEPT !.outcome = "AttributeError"]
        ELSE IF o.centroid[m].x = None
        THEN setFiberCentroid([o EXCEPT !.method = m], m, args)
        ELSE [o EXCEPT !.method = m]

\* a conversion that multiplies by magnification / pixel_size
MagnificationOverPixelSize(o, values, units) ==
    IF units = "pixels"
    THEN [o EXCEPT !.units = units, !.returned = Some(values)]
    ELSE IF o.pixel_size = None \/ o.magnification = None
    THEN [o EXCEPT !.units = units, !.outcome = "RuntimeError"]
    ELSE [o EXCEPT !.units = units,
                   !.returned = Some([i \in DOMAIN values |->
                       RDiv(RMul(values[i], Rat(o.magnification[1])),
                            Rat(o.pixel_size[1]))])]

\* lines 233-238, 273-278, 304-309: the values of a query in the units asked
\* for.  values are exact rationals in pixels; getPixelSize() and
\* getMagnification() raise RuntimeError on a None.
PixelsToUnits(o, values, units) ==
    IF units = "pixels"
    THEN [o EXCEPT !.units = units, !.returned = Some(values)]
    ELSE IF units = "microns"
    THEN IF o.pixel_size = None \/ o.magnification = None
         THEN [o EXCEPT !.units = units, !.outcome = "RuntimeError"]
         ELSE [o EXCEPT !.units = units,
                        !.returned = Some([i \in DOMAIN values |->
                            RDiv(RMul(values[i], Rat(o.pixel_size[1])),
                                 Rat(o.magnification[1]))])]
    ELSE [o EXCEPT !.units = units, !.outcome = "RuntimeError"]

\* getFiberCenter(method, units, **kwargs): center y, center x
getFiberCenterIn(o, method, args, units) ==
    Then(getFiberCenter(o, method, args), LAMBDA o1 :
        IF o1.outcome # "ok" THEN [o1 EXCEPT !.units = units]
        ELSE PixelsToUnits(o1, <<Rat(o1.center[o1.method].y[1]),
                                 Rat(o1.center[o1.method].x[1])>>, units))

\* getFiberDiameter(method, units, **kwargs)
getFiberDiameterIn(o, method, args, units) ==
    Then(getFiberDiameter(o, method, args), LAMBDA o1 :
        IF o1.outcome # "ok" THEN [o1 EXCEPT !.units = units]
        ELSE PixelsToUnits(o1, <<Rat(o1.diameter[o1.method][1])>>, units))

\* getFiberCentroid(method, units, **kwargs): centroid y, centroid x
getFiberCentroidIn(o, method, args, units) ==
    Then(getFiberCentroid(o, method, args), LAMBDA o1 :
        IF o1.outcome # "ok" THEN [o1 EXCEPT !.units = units]
        ELSE PixelsToUnits(o1, <<o1.centroid[o1.method].y[1],
                                 o1.centroid[o1.method].x[1]>>, units))

\* getFiberData(method, units, **kwargs), lines 188-192: the centre query,
\* then the diameter query; returns center_y, center_x, diameter
getFiberData(o, method, args, units) ==
    Then(getFiberCenterIn(o, method, args, units), LAMBDA o1 :
        IF o1.outcome # "ok" THEN o1
        ELSE Then(getFiberDiameterIn(o1, method, args, units), LAMBDA o2 :
                 IF o2.outcome # "ok" THEN o2
                 ELSE [o2 EXCEPT !.returned =
                          Some(o1.returned[1] \o o2.returned[1])]))

\* saveData, lines 133-139: the dictionary that is pickled
SavedData(o) ==
    [image_info |-> [camera |-> ia_camera, pixel_size |-> o.pixel_size,
                     magnification |-> o.magnification],
     analysis_info |-> [threshold |-> threshold],
     edges |-> o.edges, center |-> o.center, diameter |-> o.diameter,
     centroid |-> o.centroid, array_sum |-> o.array_sum]

(***************************************************************************)
(* FiberImage (src/fiber_properties/fiber_image.py): the result cache      *)
(***************************************************************************)
\* the attributes of a FiberInfo container
FiMethods == {"edge", "radius", "circle", "gaussian", "full"}

\* the keyword options a caller passes on to the centering method
Keys == {"tol", "test_range"}

\* a key that is not in a dict
Absent == "absent"

\* the keyword option that get_fiber_data sets itself, line 148
ShowImage == "show_image"

\* the keys of **kwargs and of the recorded options
AllKeys == Keys \cup {ShowImage}

OptionValues(key) ==
    IF key = "tol" THEN {"0.5", "0.1"}
    ELSE IF key = ShowImage THEN {"True", "False"}
    ELSE {"5"}

\* **kwargs with or without show_image: each key absent or given one of its
\* values
DataKwargs ==
    {kw \in [AllKeys -> {Absent} \cup UNION {OptionValues(k) : k \in AllKeys}] :
        \A k \in AllKeys : kw[k] \in {Absent} \cup OptionValues(k)}

\* **kwargs of a caller that leaves show_image alone
Kwargs == {kw \in DataKwargs : kw[ShowImage] = Absent}

Supplied(kwargs) == {k \in AllKeys : kwargs[k] # Absent}

\* a comparison with the recorded options that looks at the keys alone
NewOptionByKey(recorded, kwargs) ==
    \E key \in Supplied(kwargs) : recorded[key] = Absent

\* lines 225-226 and 276-277: any([key not in options or kwargs[key] != options[key]])
NewOption(recorded, kwargs) ==
    \E key \in Supplied(kwargs) :
        recorded[key] = Absent \/ kwargs[key] # recorded[key]

\* the options a run of the centering method works with: the keyword
\* arguments of the call, and the method's default for every key not passed
EffectiveOptions(kwargs) ==
    [k \in Keys |-> IF kwargs[k] = Absent THEN "default" ELSE kwargs[k]]

\* fiber_center_and_diameter(self, method, **kwargs): the centre and the
\* diameter of one run, each named by the method and the options of that run
FiberCenterAndDiameter(method, kwargs) ==
    [center   |-> [method |-> method, used |-> EffectiveOptions(kwargs)],
     diameter |-> [method |-> method, used |-> EffectiveOptions(kwargs)]]

\* lines 651-652: for key in kwargs: options[key] = kwargs[key]
RecordOptions(recorded, kwargs) ==
    [k \in AllKeys |-> IF kwargs[k] # Absent THEN kwargs[k] ELSE recorded[k]]

\* the fields of the FiberImage that the methods below read and write
FiObj == [camera |-> fi_camera, center |-> fi_center, centroid |-> fi_centroid,
          diameter |-> fi_diameter, options |-> fi_options, runs |-> fi_runs,
          method |-> "none", outcome |-> "ok", data |-> None]

\* set_fiber_center(method, **kwargs) on the object o
set_fiber_center(o, method, kwargs) ==
    LET r == FiberCenterAndDiameter(method, kwargs)
    IN  [o EXCEPT !.center[method] = Some(r.center),
                  !.diameter[method] = Some(r.diameter),
                  !.options[method] = RecordOptions(@, kwargs),
                  !.runs = @ + 1]

\* set_fiber_diameter(method, **kwargs) on the object o
set_fiber_diameter(o, method, kwargs) ==
    IF method = "circle" THEN [o EXCEPT !.outcome = "RuntimeError"]
    ELSE set_fiber_center(o, method, kwargs)

\* get_fiber_center(method, **kwargs) with an explicit method, lines 276-282
get_fiber_center(o, method, kwargs) ==
    IF o.center[method] = None \/ NewOption(o.options[method], kwargs)
    THEN set_fiber_center([o EXCEPT !.method = method], method, kwargs)
    ELSE [o EXCEPT !.method = method]

\* get_fiber_diameter(method, **kwargs) with an explicit method, lines 225-232
get_fiber_diameter(o, method, kwargs) ==
    IF o.diameter[method] = None \/ NewOption(o.options[method], kwargs)
    THEN set_fiber_diameter([o EXCEPT !.method = method], method, kwargs)
    ELSE [o EXCEPT !.method = method]

\* the order of ImageAnalysis.getFiberCenter, which looks at no camera
center_method_of_any_camera(o) ==
    IF o.center["radius"] # None THEN "radius"
    ELSE IF o.center["gaussian"] # None THEN "gaussian"
    ELSE IF o.center["circle"] # None THEN "circle"
    ELSE "edge"

\* lines 263-274: the method a centre query without a method resolves to
default_center_method(o) ==
    IF o.camera # "ff"
    THEN IF o.center["radius"] # None THEN "radius"
         ELSE IF o.center["circle"] # None THEN "circle"
         ELSE "edge"
    ELSE IF o.center["gaussian"] # None THEN "gaussian"
    ELSE "edge"

\* lines 212-223: the method a diameter query without a method resolves to
default_diameter_method(o) ==
    IF o.camera # "ff"
    THEN IF o.diameter["radius"] # None THEN "radius"
         ELSE IF o.diameter["circle"] # None THEN "circle"
         ELSE "edge"
    ELSE IF o.diameter["gaussian"] # None THEN "gaussian"
    ELSE "edge"

\* get_fiber_data(method, **kwargs), lines 147-150: the centre query, then
\* the diameter query with show_image=False added to the same kwargs; a
\* query without a method resolves its method when it is made.  data: the
\* centre and the diameter returned
get_fiber_data(o, method, kwargs) ==
    Then(get_fiber_center(o, IF method = NoMethod THEN default_center_method(o)
                             ELSE method, kwargs), LAMBDA o1 :
        IF o1.outcome # "ok" THEN o1
        ELSE Then(get_fiber_diameter(o1, IF method = NoMethod
                                         THEN default_diameter_method(o1)
                                         ELSE method,
                                     [kwargs EXCEPT ![ShowImage] = "False"]),
                  LAMBDA o2 :
                 IF o2.outcome # "ok" THEN o2
                 ELSE [o2 EXCEPT !.data =
                          Some([center |-> o1.center[o1.method][1],
                                diameter |-> o2.diameter[o2.method][1]])]))

\* lines 309-322: the method a centroid query without a method resolves to
default_centroid_method(o) ==
    IF o.camera # "ff"
    THEN IF o.centroid["radius"] # None THEN "radius"
         ELSE IF o.centroid["circle"] # None THEN "circle"
         ELSE "edge"
    ELSE IF o.centroid["gaussian"] # None THEN "gaussian"
    ELSE IF o.centroid["edge"] # None THEN "edge"
    ELSE "full"

\* fiber_centroid(self, method, **kwargs): for a method other than full the
\* centre and the diameter of the method are queried first, then the
\* intensity-weighted mean position inside that disk is taken
FiberCentroid(o, method, kwargs) ==
    IF method = "full" THEN o
    ELSE Then(get_fiber_center(o, method, kwargs), LAMBDA o1 :
             get_fiber_diameter(o1, method, kwargs))

\* set_fiber_centroid(method, **kwargs) on the object o
set_fiber_centroid(o, method, kwargs) ==
    Then(FiberCentroid(o, method, kwargs), LAMBDA o1 :
        IF o1.outcome # "ok" THEN o1
        ELSE [o1 EXCEPT !.centroid[method] =
                  Some([method |-> method, used |-> EffectiveOptions(kwargs)])])

\* get_fiber_centroid(method, **kwargs), lines 309-330
get_fiber_centroid(o, method, kwargs) ==
    LET m == IF method = NoMethod THEN default_centroid_method(o) ELSE method
    IN  IF o.centroid[m] = None
        THEN set_fiber_centroid([o EXCEPT !.method = m], m, kwargs)
        ELSE [o EXCEPT !.method = m]

(***************************************************************************)
(* The specifications                                                      *)
(***************************************************************************)
NoEdges == [left |-> None, right |-> None, top |-> None, bottom |-> None]

NoPixel == [x |-> None, y |-> None]

\* the tol, test_range and radius a call passes: None when it passes none
NoArgs == [tol |-> None, test_range |-> None, radius |-> None]

\* no golden-section search in progress
NoSearch == [kind |-> "none"]

NoIaCall == [op |-> "none", method |-> "none", resolved |-> "none",
             args |-> NoArgs, outcome |-> "none", units |-> "pixels",
             returned |-> None]

\* setImageInfo, lines 102-104: the magnification of the near-field and the
\* input camera when none is given
DefaultMagnification == 10

SetImageInfo(camera, magnification) ==
    IF magnification = None /\ camera \in {"nf", "in"}
    THEN Some(DefaultMagnification) ELSE magnification

\* the image info of ImageAnalysis(image, pixel_size, camera, magnification)
NewImageInfo(camera, pixel_size, magnification) ==
    /\ ia_camera = camera
    /\ ia_pixel_size = pixel_size
    /\ ia_magnification = SetImageInfo(camera, magnification)

\* ImageAnalysis.__init__ without image_data: nothing computed yet
NewImageAnalysis ==
    /\ ia_edges = NoEdges
    /\ ia_center = [m \in Methods |-> NoPixel]
    /\ ia_diameter = [m \in Methods |-> None]
    /\ ia_array_sum = [m \in {"radius", "circle"} |-> None]
    /\ ia_centroid = [m \in Methods \cup {"full"} |-> NoPixel]
    /\ ia_call = NoIaCall
    /\ ia_search = NoSearch
    /\ ia_saved = None

\* no ImageAnalysis object in use
IdleImageAnalysis ==
    /\ filtered_image = <<>>
    /\ threshold = 0
    /\ NewImageInfo("nf", None, None)
    /\ NewImageAnalysis

NoOptions == [k \in AllKeys |-> Absent]

\* the threads that share one FiberImage
Threads == {"first", "second"}

\* a thread that has not called the object
IdleThread == [pc |-> "idle", query |-> "none", method |-> "none",
               kwargs |-> NoOptions, result |-> None, returned |-> None]

NoFiCall == [query |-> "none", method |-> "none", resolved |-> "none",
             kwargs |-> NoOptions, outcome |-> "none", data |-> None]

\* FiberImage.__init__: nothing computed, no option recorded
NewFiberImage ==
    /\ fi_center = [m \in FiMethods |-> None]
    /\ fi_centroid = [m \in FiMethods |-> None]
    /\ fi_diameter = [m \in FiMethods |-> None]
    /\ fi_options = [m \in FiMethods |-> NoOptions]
    /\ fi_runs = 0
    /\ fi_call = NoFiCall
    /\ fi_threads = [t \in Threads |-> IdleThread]

\* no FiberImage in use
IdleFiberImage == NewFiberImage /\ fi_camera = "nf"

\* no Calibration in use
IdleCalibration ==
    /\ dark_image = NoImage
    /\ flat_image = NoImage
    /\ ambient_image = NoImage
    /\ ambient_exp_time = 0
    /\ cal_ctor = [dark |-> NoImage, flat |-> NoImage, ambient |-> NoImage]
    /\ cal_call = [called |-> FALSE, image |-> NoImage, exp_time |-> 0,
                   result |-> Raise("none")]

ExpTimes == 1..MaxExp

NoCall == [called |-> FALSE, image |-> NoImage, exp_time |-> 0, result |-> Raise("none")]

\* Calibration(dark, flat, ambient): references of one shape, the ambient
\* exposure time known or not
InitCalibration ==
    /\ \E n \in Shapes :
          /\ dark_image \in {NoImage} \cup ImagesOf(n, MaxRef)
          /\ flat_image \in {NoImage} \cup ImagesOf(n, MaxPix)
          /\ ambient_image \in {NoImage} \cup ImagesOf(n, MaxRef)
    /\ ambient_exp_time \in IF ambient_image = NoImage THEN {0} ELSE {0} \cup ExpTimes
    /\ cal_ctor = [dark |-> dark_image, flat |-> flat_image, ambient |-> ambient_image]
    /\ cal_call = NoCall
    /\ IdleImageAnalysis
    /\ IdleFiberImage

ExecuteErrorCorrections(image, exp_time) ==
    /\ ~cal_call.called
    /\ dark_image' = EffectiveDark(dark_image, image)
    /\ cal_call' = [called |-> TRUE, image |-> image, exp_time |-> exp_time,
                    result |-> Corrected(image, exp_time, dark_image',
                                         ambient_image, flat_image, ambient_exp_time)]
    /\ UNCHANGED <<flat_image, ambient_image, ambient_exp_time, cal_ctor>>
    /\ UNCHANGED <<ia_vars, fi_vars>>

\* the caller takes the returned array; the Calibration is ready for the next call
CalibrationReturn ==
    /\ cal_call.called
    /\ cal_call' = NoCall
    /\ UNCHANGED <<dark_image, flat_image, ambient_image, ambient_exp_time, cal_ctor>>
    /\ UNCHANGED <<ia_vars, fi_vars>>

NextCalibration ==
    \/ \E image \in Images, exp_time \in {0} \cup ExpTimes :
          ExecuteErrorCorrections(image, exp_time)
    \/ CalibrationReturn

SpecCalibration == InitCalibration /\ [][NextCalibration]_vars

\* the filtered images of Height rows and Width columns
FilteredImages == SeqsOf(SeqsOf(0..EdgeMax, Width), Height)

InitEdges ==
    /\ IdleCalibration
    /\ IdleFiberImage
    /\ filtered_image \in FilteredImages
    /\ threshold \in 0..EdgeMax
    /\ NewImageInfo("nf", None, None)
    /\ NewImageAnalysis

\* the object after a method that returned normally
Store(o, op, method, args) ==
    /\ ia_edges' = o.edges
    /\ ia_center' = o.center
    /\ ia_diameter' = o.diameter
    /\ ia_array_sum' = o.array_sum
    /\ ia_centroid' = o.centroid
    /\ ia_call' = [op |-> op, method |-> method, resolved |-> o.method,
                   args |-> args, outcome |-> o.outcome, units |-> o.units,
                   returned |-> o.returned]
    /\ UNCHANGED <<filtered_image, threshold, ia_camera, ia_pixel_size,
                   ia_magnification, ia_saved, ia_search>>

CallSetFiberEdges ==
    /\ Store(SetFiberEdges(Obj), "setFiberEdges", "none", NoArgs)
    /\ UNCHANGED <<cal_vars, fi_vars>>

CallSetFiberCenterEdgeMethod ==
    /\ Store(SetFiberCenterEdgeMethod(Obj), "setFiberCenterEdgeMethod", "edge", NoArgs)
    /\ UNCHANGED <<cal_vars, fi_vars>>

NextEdges == CallSetFiberEdges \/ CallSetFiberCenterEdgeMethod

SpecEdges == InitEdges /\ [][NextEdges]_vars

\* filtered images of a uniformly bright square face on a dark field, the
\* face spanning rows and columns first..last
SearchImages ==
    {[r \in 1..Height |-> [c \in 1..Width |->
          IF first <= r /\ r <= last /\ first <= c /\ c <= last
          THEN EdgeMax ELSE 0]] :
       first \in 1..Width, last \in 1..Width}

\* the tol (one pixel, the default), test_range and radius arguments;
\* test_range and radius in units of 1/Scale pixel
Tols == {Scale * TolDen}

TestRanges == {None, Some(2 * Scale)}

Radii == {Scale}

InitImageAnalysis ==
    /\ IdleCalibration
    /\ IdleFiberImage
    /\ filtered_image \in SearchImages
    /\ threshold \in 0..EdgeMax
    /\ NewImageInfo("nf", None, None)
    /\ NewImageAnalysis

CallSetFiberCenter(method, tol, test_range, radius) ==
    /\ Store(SetFiberCenter([Obj EXCEPT !.method = method], method, tol,
                            test_range, radius),
             "setFiberCenter", method,
             [tol |-> Some(tol), test_range |-> test_range, radius |-> Some(radius)])
    /\ UNCHANGED <<cal_vars, fi_vars>>

NextImageAnalysis ==
    \E method \in Methods, tol \in Tols, test_range \in TestRanges, radius \in Radii :
        CallSetFiberCenter(method, tol, test_range, radius)

SpecImageAnalysis == InitImageAnalysis /\ [][NextImageAnalysis]_vars

\* --- the golden-section searches, one loop iteration a step ---------------
InitSearch ==
    /\ IdleCalibration
    /\ IdleFiberImage
    /\ filtered_image \in SearchImages
    /\ threshold \in 0..EdgeMax
    /\ NewImageInfo("nf", None, None)
    /\ NewImageAnalysis

\* the tol of a centre search: below the spacing of the positions, or the
\* default of one pixel
CircleTols == {1, Scale * TolDen}

\* the radius of a centre search: one pixel and two, in an image of three
CircleRadii == {Scale, 2 * Scale}

\* the object o and the locals of the search after a step
SearchStore(o, search) ==
    /\ ia_edges' = o.edges
    /\ ia_center' = o.center
    /\ ia_diameter' = o.diameter
    /\ ia_array_sum' = o.array_sum
    /\ ia_centroid' = o.centroid
    /\ ia_search' = search
    /\ UNCHANGED <<filtered_image, threshold, ia_camera, ia_pixel_size,
                   ia_magnification, ia_saved, ia_call>>
    /\ UNCHANGED <<cal_vars, fi_vars>>

\* setFiberCenterCircleMethod(radius, tol, test_range), lines 620-665
CircleStart(radius, tol, test_range) ==
    /\ ia_search.kind = "none"
    /\ LET o1 == IF test_range = None THEN Obj ELSE EnsureEdgeCenter(Obj)
       IN  SearchStore(o1, [kind |-> "circle", radius |-> radius, tol |-> tol,
                            bounds |-> CircleBounds(o1, radius, test_range),
                            st |-> CircleInit(o1, radius, test_range)])

\* lines 667-699: the loop condition holds and the body runs once
CircleIterate ==
    /\ ia_search.kind = "circle"
    /\ CircleContinues(ia_search.st, ia_search.tol)
    /\ SearchStore(Obj, [ia_search EXCEPT
                            !.st = CircleStep(ia_search.st, ia_search.radius)])

\* lines 667, 701-704: the loop condition fails and the result is stored
CircleReturn ==
    /\ ia_search.kind = "circle"
    /\ ~CircleContinues(ia_search.st, ia_search.tol)
    /\ LET st == ia_search.st
       IN  SearchStore(
               [Obj EXCEPT
                  !.center["circle"] = [x |-> Some(st.x[st.min_index[2] + 2]),
                                        y |-> Some(st.y[st.min_index[1] + 2])],
                  !.diameter["circle"] = Some(ia_search.radius * 2),
                  !.array_sum["circle"] =
                      Some(st.array_sum[st.min_index[1]][st.min_index[2]])],
               [ia_search EXCEPT !.kind = "circle returned"])

\* setFiberCenterRadiusMethod(tol, test_range), lines 556-578
RadiusStart(tol, test_range) ==
    /\ ia_search.kind = "none"
    /\ LET st == RadiusInit(Obj, tol, test_range)
       IN  SearchStore(st.o, [kind |-> "radius", tol |-> tol, st |-> st])

\* lines 580-596: the loop condition holds and the body runs once
RadiusIterate ==
    /\ ia_search.kind = "radius"
    /\ RadiusContinues(ia_search.st, ia_search.tol)
    /\ LET st == RadiusStep(ia_search.st, ia_search.tol)
       IN  SearchStore(st.o, [ia_search EXCEPT !.st = st])

\* lines 580, 598-601: the loop condition fails and the result is stored
RadiusReturn ==
    /\ ia_search.kind = "radius"
    /\ ~RadiusContinues(ia_search.st, ia_search.tol)
    /\ LET st == ia_search.st
       IN  SearchStore(
               [st.o EXCEPT
                  !.diameter["radius"] = Some(st.r[st.min_index + 2] * 2),
                  !.center["radius"] = st.o.center["circle"],
                  !.array_sum["radius"] =
                      Some(st.array_sum[ArgMin1D(st.array_sum) + 1])],
               [ia_search EXCEPT !.kind = "radius returned"])

\* The loop of lines 570-596 on its own: the search of a given objective of
\* one variable in place of the sum the circle method leaves behind.
\* The objectives are strictly unimodal with their minimum at c.
Shapes1D == {"parabola", "skewed"}

Objective(shape, c, x) ==
    IF shape = "parabola" THEN (x - c) * (x - c)
    ELSE IF x < c THEN 3 * (c - x) ELSE x - c

\* The positions of this search are counted in units of 1/Fine, fine enough
\* for a tol of 0.01 to span several positions, as it spans many floats.
Fine == 10 * Scale

\* the interval [0, 10]
GoldenLow == 0

GoldenHigh == 10 * Fine

\* where the minimum lies
Minimisers == {c \in GoldenLow..GoldenHigh : c % (Fine \div 4) \in {0, 7}}

\* tol: 0.01, 0.1 and 1
GoldenTols == {TolDen * (Fine \div 100), TolDen * (Fine \div 10), TolDen * Fine}

\* lines 570-578 for the objective
GoldenStart(shape, c, tol) ==
    /\ ia_search.kind = "none"
    /\ LET r == Bracket(GoldenLow, GoldenHigh)
           sums == <<Objective(shape, c, r[2]), Objective(shape, c, r[3])>>
       IN  SearchStore(Obj, [kind |-> "golden", shape |-> shape, c |-> c, tol |-> tol,
                             st |-> [r |-> r, array_sum |-> sums,
                                     min_index |-> ArgMin1D(sums),
                                     evaluated |-> {0, 1}]])

\* lines 580-596 for the objective
GoldenIterate ==
    /\ ia_search.kind = "golden"
    /\ RadiusContinues(ia_search.st, ia_search.tol)
    /\ LET st == ia_search.st
           r == Shrink(st.r, st.min_index)
           sums == ReplaceSum(st.array_sum, st.min_index,
                              Objective(ia_search.shape, ia_search.c,
                                        r[st.min_index + 2]))
       IN  SearchStore(Obj, [ia_search EXCEPT
                                !.st = [r |-> r, array_sum |-> sums,
                                        min_index |-> ArgMin1D(sums),
                                        evaluated |-> {st.min_index}]])

\* lines 580, 598: the loop condition fails; r[min_index+1] is the result
GoldenReturn ==
    /\ ia_search.kind = "golden"
    /\ ~RadiusContinues(ia_search.st, ia_search.tol)
    /\ SearchStore(Obj, [ia_search EXCEPT !.kind = "golden returned"])

NextSearch ==
    \/ \E radius \in CircleRadii, tol \in CircleTols, test_range \in TestRanges :
           CircleStart(radius, tol, test_range)
    \/ CircleIterate
    \/ CircleReturn
    \/ \E tol \in Tols, test_range \in TestRanges : RadiusStart(tol, test_range)
    \/ RadiusIterate
    \/ RadiusReturn
    \/ \E shape \in Shapes1D, c \in Minimisers, tol \in GoldenTols :
           GoldenStart(shape, c, tol)
    \/ GoldenIterate
    \/ GoldenReturn

SpecSearch == InitSearch /\ [][NextSearch]_vars

\* the interpreter goes on running the loop it is in
SpecSearchFair == SpecSearch /\ WF_vars(NextSearch)

\* the getters of an ImageAnalysis of any camera, on one image
GetterImages ==
    {img \in SearchImages :
        img[1][1] = 0 /\ img[2][2] = EdgeMax /\ img[Height][Width] = EdgeMax}

\* a call that passes the radius of the circle method and nothing else
RadiusArgs == [NoArgs EXCEPT !.radius = Some(Scale)]

InitGetters ==
    /\ IdleCalibration
    /\ IdleFiberImage
    /\ filtered_image \in GetterImages
    /\ threshold = 0
    /\ \E camera \in Cameras : NewImageInfo(camera, None, None)
    /\ NewImageAnalysis

Call_setFiberCenter(method, args) ==
    /\ Store(SetFiberCenterWith([Obj EXCEPT !.method = method], method, args),
             "setFiberCenter", method, args)
    /\ UNCHANGED <<cal_vars, fi_vars>>

Call_getFiberCenter(method, args) ==
    /\ Store(getFiberCenter(Obj, method, args), "getFiberCenter", method, args)
    /\ UNCHANGED <<cal_vars, fi_vars>>

Call_getFiberDiameter(method, args) ==
    /\ Store(getFiberDiameter(Obj, method, args), "getFiberDiameter", method, args)
    /\ UNCHANGED <<cal_vars, fi_vars>>

Call_getFiberCentroid(method, args) ==
    /\ Store(getFiberCentroid(Obj, method, args), "getFiberCentroid", method, args)
    /\ UNCHANGED <<cal_vars, fi_vars>>

NextGetters ==
    \/ \E method \in Methods : Call_setFiberCenter(method, RadiusArgs)
    \/ \E method \in Methods \cup {NoMethod} :
           \/ Call_getFiberCenter(method, NoArgs)
           \/ Call_getFiberDiameter(method, NoArgs)
    \/ \E method \in Methods \cup {"full", NoMethod} :
           Call_getFiberCentroid(method, NoArgs)

SpecGetters == InitGetters /\ [][NextGetters]_vars

\* --- saveData, and ImageAnalysis(image, image_data=file) on the same image
InitSaveLoad ==
    /\ IdleCalibration
    /\ IdleFiberImage
    /\ filtered_image \in GetterImages
    /\ threshold = 0
    /\ NewImageInfo("nf", None, None)
    /\ NewImageAnalysis

\* saveData(): the object is left as it is
SaveData ==
    /\ ia_saved = None
    /\ ia_saved' = Some(SavedData(Obj))
    /\ ia_call' = [NoIaCall EXCEPT !.op = "saveData", !.outcome = "ok"]
    /\ UNCHANGED <<filtered_image, threshold, ia_camera, ia_pixel_size,
                   ia_magnification, ia_edges, ia_center, ia_diameter,
                   ia_array_sum, ia_centroid, ia_search>>
    /\ UNCHANGED <<cal_vars, fi_vars>>

\* __init__ with image_data, lines 60-61, 76-77, 120-128: the dictionaries
\* come from the file, then setImageArray reads the same image
LoadData ==
    /\ ia_saved # None
    /\ LET data == ia_saved[1]
       IN  /\ ia_camera' = data.image_info.camera
           /\ ia_pixel_size' = data.image_info.pixel_size
           /\ ia_magnification' = SetImageInfo(data.image_info.camera,
                                               data.image_info.magnification)
           /\ threshold' = data.analysis_info.threshold
           /\ ia_edges' = data.edges
           /\ ia_center' = data.center
           /\ ia_diameter' = data.diameter
           /\ ia_centroid' = data.centroid
           /\ ia_array_sum' = data.array_sum
    /\ ia_call' = [NoIaCall EXCEPT !.op = "loadData", !.outcome = "ok"]
    /\ UNCHANGED <<filtered_image, ia_saved, ia_search>>
    /\ UNCHANGED <<cal_vars, fi_vars>>

\* a query of the restored object, in pixels
QueryLoaded(query, method) ==
    /\ ia_call.op = "loadData"
    /\ Store(CASE query = "getFiberCenter" ->
                     getFiberCenterIn(Obj, method, NoArgs, "pixels")
               [] query = "getFiberDiameter" ->
                     getFiberDiameterIn(Obj, method, NoArgs, "pixels")
               [] query = "getFiberCentroid" ->
                     getFiberCentroidIn(Obj, method, NoArgs, "pixels"),
             query, method, NoArgs)
    /\ UNCHANGED <<cal_vars, fi_vars>>

\* a centroid computed before the save
ComputeCentroid(method) ==
    /\ ia_saved = None
    /\ Call_getFiberCentroid(method, RadiusArgs)

NextSaveLoad ==
    \/ \E method \in Methods :
           ia_saved = None /\ Call_setFiberCenter(method, RadiusArgs)
    \/ \E method \in {"edge", "full"} : ComputeCentroid(method)
    \/ SaveData
    \/ LoadData
    \/ \E query \in {"getFiberCenter", "getFiberDiameter", "getFiberCentroid"},
          method \in Methods : QueryLoaded(query, method)

SpecSaveLoad == InitSaveLoad /\ [][NextSaveLoad]_vars

\* --- the getters in pixels and in microns, with and without the metadata
PixelSizes == {None, Some(3)}

Magnifications == {None, Some(2)}

Units == {"pixels", "microns"}

Queries == {"getFiberCenter", "getFiberDiameter", "getFiberCentroid"}

InitUnits ==
    /\ IdleCalibration
    /\ IdleFiberImage
    /\ filtered_image \in GetterImages
    /\ threshold = 0
    /\ \E camera \in {"nf", "ff"}, pixel_size \in PixelSizes,
          magnification \in Magnifications :
           NewImageInfo(camera, pixel_size, magnification)
    /\ NewImageAnalysis

\* the query without its conversion
PixelQuery(o, query, method, args) ==
    CASE query = "getFiberCenter" -> getFiberCenter(o, method, args)
      [] query = "getFiberDiameter" -> getFiberDiameter(o, method, args)
      [] query = "getFiberCentroid" -> getFiberCentroid(o, method, args)

QueryIn(query, method, units) ==
    /\ Store(CASE query = "getFiberCenter" ->
                     getFiberCenterIn(Obj, method, RadiusArgs, units)
               [] query = "getFiberDiameter" ->
                     getFiberDiameterIn(Obj, method, RadiusArgs, units)
               [] query = "getFiberCentroid" ->
                     getFiberCentroidIn(Obj, method, RadiusArgs, units),
             query, method, RadiusArgs)
    /\ UNCHANGED <<cal_vars, fi_vars>>

NextUnits ==
    \E query \in Queries, method \in {"edge", "circle", NoMethod},
       units \in Units : QueryIn(query, method, units)

SpecUnits == InitUnits /\ [][NextUnits]_vars

\* --- getFiberData after the centering methods
Call_getFiberData(method, args, units) ==
    /\ Store(getFiberData(Obj, method, args, units), "getFiberData", method, args)
    /\ UNCHANGED <<cal_vars, fi_vars>>

NextData ==
    \/ \E method \in Methods : Call_setFiberCenter(method, RadiusArgs)
    \/ \E method \in Methods \cup {NoMethod} :
           Call_getFiberData(method, RadiusArgs, "pixels")

SpecData == InitGetters /\ [][NextData]_vars

InitFiberImage ==
    /\ IdleCalibration
    /\ IdleImageAnalysis
    /\ NewFiberImage
    /\ fi_camera = "nf"

\* the object after a call, with what the call was
FiStore(o, query, method, kwargs) ==
    /\ fi_center' = o.center
    /\ fi_centroid' = o.centroid
    /\ fi_diameter' = o.diameter
    /\ fi_options' = o.options
    /\ fi_runs' = o.runs
    /\ fi_call' = [query |-> query, method |-> method, resolved |-> o.method,
                   kwargs |-> kwargs, outcome |-> o.outcome, data |-> o.data]
    /\ UNCHANGED <<cal_vars, ia_vars, fi_camera, fi_threads>>

CallGetFiberCenter(method, kwargs) ==
    /\ fi_runs < MaxRuns
    /\ FiStore(get_fiber_center(FiObj, method, kwargs), "center", method, kwargs)

CallGetFiberDiameter(method, kwargs) ==
    /\ fi_runs < MaxRuns
    /\ FiStore(get_fiber_diameter(FiObj, method, kwargs), "diameter", method, kwargs)

NextFiberImage ==
    \E method \in FiMethods, kwargs \in Kwargs :
        \/ CallGetFiberCenter(method, kwargs)
        \/ CallGetFiberDiameter(method, kwargs)

SpecFiberImage == InitFiberImage /\ [][NextFiberImage]_vars

\* the queries of a FiberImage of any camera, with and without a method
InitFiberQueries ==
    /\ IdleCalibration
    /\ IdleImageAnalysis
    /\ NewFiberImage
    /\ fi_camera \in Cameras

\* **kwargs that pass tol or nothing
TolKwargs == {kw \in Kwargs : kw["test_range"] = Absent}

\* a centre query with an explicit method
CallGetFiberCenterOf(method, kwargs) ==
    /\ fi_runs < MaxQueryRuns
    /\ FiStore(get_fiber_center(FiObj, method, kwargs), "center", method, kwargs)

\* a diameter query with an explicit method
CallGetFiberDiameterOf(method, kwargs) ==
    /\ fi_runs < MaxQueryRuns
    /\ FiStore(get_fiber_diameter(FiObj, method, kwargs), "diameter", method, kwargs)

CallGetFiberCenterDefault(kwargs) ==
    /\ fi_runs < MaxQueryRuns
    /\ FiStore(get_fiber_center(FiObj, default_center_method(FiObj), kwargs),
               "center", NoMethod, kwargs)

CallGetFiberDiameterDefault(kwargs) ==
    /\ fi_runs < MaxQueryRuns
    /\ FiStore(get_fiber_diameter(FiObj, default_diameter_method(FiObj), kwargs),
               "diameter", NoMethod, kwargs)

CallGetFiberCentroid(method, kwargs) ==
    /\ fi_runs < MaxQueryRuns
    /\ FiStore(get_fiber_centroid(FiObj, method, kwargs), "centroid", method, kwargs)

NextFiberQueries ==
    \E kwargs \in TolKwargs :
        \/ \E method \in FiMethods : CallGetFiberCenterOf(method, kwargs)
        \/ CallGetFiberDiameterOf("circle", kwargs)
        \/ CallGetFiberCenterDefault(kwargs)
        \/ CallGetFiberDiameterDefault(kwargs)
        \/ \E method \in FiMethods \cup {NoMethod} :
               CallGetFiberCentroid(method, kwargs)

SpecFiberQueries == InitFiberQueries /\ [][NextFiberQueries]_vars

\* --- get_fiber_data on a FiberImage of any camera
InitFiberData ==
    /\ IdleCalibration
    /\ IdleImageAnalysis
    /\ NewFiberImage
    /\ fi_camera \in Cameras

\* the methods of the centre and the diameter
DataMethods == {"edge", "radius", "circle", "gaussian"}

CallGetFiberData(method, kwargs) ==
    /\ fi_runs < MaxRuns
    /\ FiStore(get_fiber_data(FiObj, method, kwargs), "data", method, kwargs)

\* **kwargs that pass tol, show_image, both or nothing
ShowKwargs == {kw \in DataKwargs : kw["test_range"] = Absent}

NextFiberData ==
    \E method \in DataMethods \cup {NoMethod}, kwargs \in ShowKwargs :
        CallGetFiberData(method, kwargs)

SpecFiberData == InitFiberData /\ [][NextFiberData]_vars

\* --- two threads inside get_fiber_center / get_fiber_diameter ------------
\* The getters take no lock, so a thread switch can fall between any two
\* statements.  A step of a thread is one statement of the getter or of
\* set_fiber_center; the read of the options and of the cached value in the
\* if-condition is taken as one step.
InitThreads ==
    /\ IdleCalibration
    /\ IdleImageAnalysis
    /\ NewFiberImage
    /\ fi_camera \in Cameras

\* the methods the threads ask for
ThreadMethods == {"radius", "circle"}

\* the cache a query reads
Cached(query, method) ==
    IF query = "center" THEN fi_center[method] ELSE fi_diameter[method]

ThreadStore(t, next) ==
    /\ fi_threads' = [fi_threads EXCEPT ![t] = next]
    /\ UNCHANGED <<cal_vars, ia_vars, fi_camera, fi_call>>

\* a thread calls get_fiber_center(method, **kwargs) or
\* get_fiber_diameter(method, **kwargs)
ThreadCall(t, query, method, kwargs) ==
    /\ fi_threads[t].pc = "idle"
    /\ ThreadStore(t, [fi_threads[t] EXCEPT !.pc = "check", !.query = query,
                                            !.method = method, !.kwargs = kwargs])
    /\ UNCHANGED <<fi_center, fi_centroid, fi_diameter, fi_options, fi_runs>>

\* lines 276-279 and 225-228, with lines 624-625 of set_fiber_diameter
ThreadCheck(t) ==
    LET th == fi_threads[t]
        stale == \/ Cached(th.query, th.method) = None
                 \/ NewOption(fi_options[th.method], th.kwargs)
        next == IF ~stale THEN "read"
                ELSE IF th.query = "diameter" /\ th.method = "circle"
                     THEN "RuntimeError"
                ELSE "estimate"
    IN  /\ th.pc = "check"
        /\ ThreadStore(t, [th EXCEPT !.pc = next])
        /\ UNCHANGED <<fi_center, fi_centroid, fi_diameter, fi_options, fi_runs>>

\* line 648: center, diameter = fiber_center_and_diameter(self, method, **kwargs)
ThreadEstimate(t) ==
    LET th == fi_threads[t]
    IN  /\ th.pc = "estimate"
        /\ fi_runs' = fi_runs + 1
        /\ ThreadStore(t, [th EXCEPT !.pc = "set_center",
                              !.result = Some(FiberCenterAndDiameter(th.method, th.kwargs))])
        /\ UNCHANGED <<fi_center, fi_centroid, fi_diameter, fi_options>>

\* line 649: setattr(self._center, method, center)
ThreadSetCenter(t) ==
    LET th == fi_threads[t]
    IN  /\ th.pc = "set_center"
        /\ fi_center' = [fi_center EXCEPT ![th.method] = Some(th.result[1].center)]
        /\ ThreadStore(t, [th EXCEPT !.pc = "set_diameter"])
        /\ UNCHANGED <<fi_centroid, fi_diameter, fi_options, fi_runs>>

\* line 650: setattr(self._diameter, method, diameter)
ThreadSetDiameter(t) ==
    LET th == fi_threads[t]
    IN  /\ th.pc = "set_diameter"
        /\ fi_diameter' = [fi_diameter EXCEPT ![th.method] = Some(th.result[1].diameter)]
        /\ ThreadStore(t, [th EXCEPT !.pc = "record_options"])
        /\ UNCHANGED <<fi_center, fi_centroid, fi_options, fi_runs>>

\* lines 651-652: for key in kwargs: options[key] = kwargs[key]
ThreadRecordOptions(t) ==
    LET th == fi_threads[t]
    IN  /\ th.pc = "record_options"
        /\ fi_options' = [fi_options EXCEPT ![th.method] = RecordOptions(@, th.kwargs)]
        /\ ThreadStore(t, [th EXCEPT !.pc = "read"])
        /\ UNCHANGED <<fi_center, fi_centroid, fi_diameter, fi_runs>>

\* lines 281-282 and 230-232: the cached value is read and returned
ThreadRead(t) ==
    LET th == fi_threads[t]
    IN  /\ th.pc = "read"
        /\ ThreadStore(t, [th EXCEPT !.pc = "done",
                                     !.returned = Cached(th.query, th.method)])
        /\ UNCHANGED <<fi_center, fi_centroid, fi_diameter, fi_options, fi_runs>>

NextThreads ==
    \E t \in Threads :
        \/ \E query \in {"center", "diameter"}, method \in ThreadMethods,
              kwargs \in TolKwargs : ThreadCall(t, query, method, kwargs)
        \/ ThreadCheck(t)
        \/ ThreadEstimate(t)
        \/ ThreadSetCenter(t)
        \/ ThreadSetDiameter(t)
        \/ ThreadRecordOptions(t)
        \/ ThreadRead(t)

SpecThreads == InitThreads /\ [][NextThreads]_vars

(***************************************************************************)
(* Claims about Calibration, checked under SpecCalibration                 *)
(***************************************************************************)
\* the claims' own arithmetic, on the raw integer pixel values
Clamp0(v) == IF v > 0 THEN v ELSE 0

RECURSIVE IntSum(_)
IntSum(s) == IF s = <<>> THEN 0 ELSE s[1] + IntSum(Tail(s))

\* the last call was given an image of the shape of every stored reference
CalSameShape ==
    /\ cal_call.called
    /\ Len(dark_image) = Len(cal_call.image)
    /\ flat_image # NoImage => Len(flat_image) = Len(cal_call.image)
    /\ ambient_image # NoImage => Len(ambient_image) = Len(cal_call.image)

\* the dark-corrected flat, pixel i
CalFlatPixel(i) == Clamp0(flat_image[i][1] - dark_image[i][1])

\* C1: with only a dark reference D set, every pixel of the corrected image
\* is I-D where I-D > 0 and 0 elsewhere (so it is never negative).
C1_DarkCorrection ==
    (/\ CalSameShape
     /\ cal_ctor.dark # NoImage
     /\ flat_image = NoImage
     /\ ambient_image = NoImage)
    => /\ cal_call.result.outcome = "ok"
       /\ Len(cal_call.result.image) = Len(cal_call.image)
       /\ \A i \in 1..Len(cal_call.image) :
             LET d == cal_call.image[i][1] - cal_ctor.dark[i][1]
                 out == cal_call.result.image[i]
             IN  /\ out[1] >= 0 /\ out[2] = 1
                 /\ d > 0 => out[1] = d
                 /\ d <= 0 => out[1] = 0

\* a dark-only correction with one pixel above the dark and one below it
C1_Witness ==
    /\ CalSameShape
    /\ cal_ctor.dark # NoImage
    /\ flat_image = NoImage
    /\ ambient_image = NoImage
    /\ \E i, j \in 1..Len(cal_call.image) :
          /\ cal_call.image[i][1] > cal_ctor.dark[i][1]
          /\ cal_call.image[j][1] < cal_ctor.dark[j][1]
          /\ cal_call.result.image[i] = Rat(cal_call.image[i][1] - cal_ctor.dark[i][1])

\* the exposure scale s = e/t of the last call: 1/1 when no exposure time is given
CalScaleNum == IF cal_call.exp_time = 0 THEN 1 ELSE cal_call.exp_time

CalScaleDen == IF cal_call.exp_time = 0 THEN 1 ELSE ambient_exp_time

\* t * clamp0(clamp0(I-D) - (e/t) * clamp0(A-D)) at pixel i
CalPreFlat(i) ==
    LET x == Clamp0(cal_call.image[i][1] - dark_image[i][1])
        a == IF ambient_image = NoImage THEN 0
             ELSE Clamp0(ambient_image[i][1] - dark_image[i][1])
    IN  Clamp0(x * CalScaleDen - CalScaleNum * a)

\* the cases C2 speaks of: the scale is defined and the flat is usable
CalOrderCase ==
    /\ CalSameShape
    /\ (ambient_image # NoImage /\ cal_call.exp_time # 0) => ambient_exp_time # 0
    /\ flat_image # NoImage => \A i \in 1..Len(flat_image) : CalFlatPixel(i) > 0

\* C2: the steps run in the order dark, ambient, flat: the returned pixel is
\* clamp0(clamp0(I-D) - s*clamp0(A-D)) times mean(F')/F', F' = clamp0(F-D)
\* (the equalities are cross-multiplied: out = n/d, s = e/t).
C2_FixedOrder ==
    CalOrderCase
    => /\ cal_call.result.outcome = "ok"
       /\ Len(cal_call.result.image) = Len(cal_call.image)
       /\ \A i \in 1..Len(cal_call.image) :
             LET out == cal_call.result.image[i]
                 n == Len(cal_call.image)
                 sumF == IntSum([k \in 1..n |-> CalFlatPixel(k)])
             IN  /\ out[2] > 0
                 /\ IF flat_image = NoImage
                    THEN out[1] * CalScaleDen = out[2] * CalPreFlat(i)
                    ELSE out[1] * CalScaleDen * n * CalFlatPixel(i)
                           = out[2] * CalPreFlat(i) * sumF

\* all three references set, a scaled ambient that leaves a positive pixel,
\* and a flat that is not uniform
C2_Witness ==
    /\ CalOrderCase
    /\ ambient_image # NoImage
    /\ flat_image # NoImage
    /\ cal_ctor.dark # NoImage
    /\ cal_call.exp_time # 0
    /\ cal_call.exp_time # ambient_exp_time
    /\ \E i, j \in 1..Len(cal_call.image) :
          /\ CalFlatPixel(i) # CalFlatPixel(j)
          /\ CalPreFlat(i) > 0
          /\ ambient_image[i][1] > dark_image[i][1]
          /\ cal_call.result.image[i][1] > 0

\* C3: a flat whose dark-corrected value is zero or negative at some pixel
\* makes executeErrorCorrections fail instead of returning an image.
C3_FlatValidated ==
    (/\ CalSameShape
     /\ flat_image # NoImage
     /\ \E i \in 1..Len(flat_image) : flat_image[i][1] - dark_image[i][1] <= 0)
    => cal_call.result.outcome # "ok"

\* C4: the stored references are those the Calibration was constructed with,
\* and without a dark reference every call corrects with a zero dark of the
\* shape of its own image.
C4_ReferencesImmutable ==
    /\ dark_image = cal_ctor.dark
    /\ flat_image = cal_ctor.flat
    /\ ambient_image = cal_ctor.ambient
    /\ (/\ cal_call.called
        /\ cal_ctor.dark = NoImage
        /\ cal_ctor.flat = NoImage
        /\ cal_ctor.ambient = NoImage)
       => cal_call.result = Ok(cal_call.image)

\* C4, the part of it about the result alone
C4_ZeroDarkOfOwnShape ==
    (/\ cal_call.called
     /\ cal_ctor.dark = NoImage
     /\ cal_ctor.flat = NoImage
     /\ cal_ctor.ambient = NoImage)
    => cal_call.result = Ok(cal_call.image)

(***************************************************************************)
(* Claims about the edge method, checked under SpecEdges                   *)
(***************************************************************************)
\* the columns (rows) holding a pixel above the threshold, counted from 0
BrightColumns ==
    {c \in 0..(Width - 1) :
        \E r \in 1..Height : filtered_image[r][c + 1] > threshold}

BrightRows ==
    {r \in 0..(Height - 1) :
        \E c \in 1..Width : filtered_image[r + 1][c] > threshold}

Least(S) == CHOOSE x \in S : \A y \in S : x <= y

Greatest(S) == CHOOSE x \in S : \A y \in S : x >= y

EdgesSet == ia_call.op \in {"setFiberEdges", "setFiberCenterEdgeMethod"}

\* C5: setFiberEdges sets left and right to the smallest and largest column
\* index whose maximum exceeds the threshold, top and bottom to the smallest
\* and largest such row index.
C5_EdgesAreExtremeIndices ==
    (EdgesSet /\ BrightColumns # {} /\ BrightRows # {})
    => /\ ia_edges.left = Some(Least(BrightColumns))
       /\ ia_edges.right = Some(Greatest(BrightColumns))
       /\ ia_edges.top = Some(Least(BrightRows))
       /\ ia_edges.bottom = Some(Greatest(BrightRows))

\* C6: with no column or no row above the threshold the edge method fails
\* with a NoFiberFound error and produces no edges, centre or diameter.
C6_NoFiberFound ==
    (ia_call.op = "setFiberCenterEdgeMethod"
       /\ (BrightColumns = {} \/ BrightRows = {}))
    => /\ ia_call.outcome = "NoFiberFoundError"
       /\ ia_edges = NoEdges
       /\ ia_center["edge"] = NoPixel
       /\ ia_diameter["edge"] = None

FiUncached(query, m) ==
    IF query = "center" THEN fi_center[m] = None ELSE fi_diameter[m] = None

\* before the step: a supplied option is not recorded for m, or recorded
\* with another value
FiOptionDiffers(m, kw) ==
    \E k \in Keys :
        /\ kw[k] # Absent
        /\ fi_options[m][k] = Absent \/ fi_options[m][k] # kw[k]

C10_OtherMethodsUnchanged ==
    [][\A m \in Methods \ {ia_call'.method} :
           /\ ia_center'[m] = ia_center[m]
           /\ ia_diameter'[m] = ia_diameter[m]]_vars

(***************************************************************************)
(* Claims about the default method of a query                              *)
(***************************************************************************)
\* the method the resolution order names: has(m) tells which methods hold
\* a cached result for the query
ClaimedDefault(camera, has) ==
    IF camera # "ff"
    THEN IF has["radius"] THEN "radius"
         ELSE IF has["circle"] THEN "circle"
         ELSE "edge"
    ELSE IF has["gaussian"] THEN "gaussian" ELSE "edge"

ImageAnalysisDefaultMethodOrder ==
    [][/\ (ia_call'.op = "getFiberCenter" /\ ia_call'.method = NoMethod)
           => ia_call'.resolved =
                  ClaimedDefault(ia_camera, [m \in Methods |-> ia_center[m].x # None])
       /\ (ia_call'.op = "getFiberDiameter" /\ ia_call'.method = NoMethod)
           => ia_call'.resolved =
                  ClaimedDefault(ia_camera, [m \in Methods |-> ia_diameter[m] # None])]_vars

\* C12: a diameter query never resolves to the circle method: with no
\* method it never selects circle, and with method='circle' it fails with
\* the unsupported-method error (RuntimeError).
C12_NoCircleDiameter ==
    [][fi_call'.query = "diameter"
           => /\ fi_call'.resolved # "circle" \/ fi_call'.outcome = "RuntimeError"
              /\ fi_call'.method = NoMethod => fi_call'.resolved # "circle"]_vars

(***************************************************************************)
(* Claims about the centroid queries                                       *)
(***************************************************************************)
\* C13: a centroid query with an explicit method m and a keyword option
\* that differs from the one m's cached centroid was computed with
\* recomputes the centroid: the centroid it leaves cached was computed with
\* the options of the call.
C13_CentroidOptionSensitive ==
    [][LET m == fi_call'.method
           kw == fi_call'.kwargs
       IN  (/\ fi_call'.query = "centroid"
            /\ m # NoMethod
            /\ fi_centroid[m] # None
            /\ \E k \in Keys : kw[k] # Absent /\ fi_centroid[m][1].used[k] # kw[k])
           => /\ fi_centroid'[m] # None
              /\ \A k \in Keys :
                     kw[k] # Absent => fi_centroid'[m][1].used[k] = kw[k]]_vars

\* C14: for every camera, a centroid query with no method on an object that
\* holds no cached centroid falls back to the full method and returns its
\* result.
C14_CentroidFallsBackToFull ==
    [][(/\ fi_call'.query = "centroid"
        /\ fi_call'.method = NoMethod
        /\ \A m \in FiMethods : fi_centroid[m] = None)
           => /\ fi_call'.resolved = "full"
              /\ fi_call'.outcome = "ok"
              /\ fi_centroid'["full"] # None]_vars

(***************************************************************************)
(* Claims about concurrent queries, checked under SpecThreads              *)
(***************************************************************************)
\* both threads are in a query of the centre or the diameter of one method
\* with the same options
SameQuery ==
    /\ \A t \in Threads : fi_threads[t].pc # "idle"
    /\ fi_threads["first"].method = fi_threads["second"].method
    /\ fi_threads["first"].kwargs = fi_threads["second"].kwargs

\* C15: when two threads concurrently query the centre or the diameter of
\* the same method with the same options, the estimator runs at most once,
\* and no thread reads a cache in which the centre of the method is there
\* and its diameter is missing
C15_EstimatorRunsOnce ==
    SameQuery =>
        /\ fi_runs <= 1
        /\ \A t \in Threads :
               fi_threads[t].pc = "read" =>
                   LET m == fi_threads[t].method
                   IN  fi_center[m] # None => fi_diameter[m] # None

(***************************************************************************)
(* Claims about the golden-section searches, checked under SpecSearch      *)
(***************************************************************************)
\* a search of the radius or of the centre is in its loop
InLoop == ia_search.kind \in {"circle", "radius"}

Returned == ia_search.kind \in {"circle returned", "radius returned"}

\* an iteration of the loop of the centre search, of the radius search
CircleIterated == ia_search.kind = "circle" /\ ia_search'.kind = "circle"

RadiusIterated == ia_search.kind = "radius" /\ ia_search'.kind = "radius"

\* every iteration of either loop strictly shrinks the bracket
BracketShrinks ==
    [][/\ CircleIterated =>
            /\ Abs(ia_search'.st.x[4] - ia_search'.st.x[1])
                  < Abs(ia_search.st.x[4] - ia_search.st.x[1])
            /\ Abs(ia_search'.st.y[4] - ia_search'.st.y[1])
                  < Abs(ia_search.st.y[4] - ia_search.st.y[1])
       /\ RadiusIterated =>
            Abs(ia_search'.st.r[4] - ia_search'.st.r[1])
                < Abs(ia_search.st.r[4] - ia_search.st.r[1])]_vars

\* C16: both golden-section loops terminate for every tol > 0 and finite
\* initial bounds: a search that has entered its loop returns
C16_SearchTerminates == InLoop ~> Returned

\* the point a finished search of one variable returns: r[min_index+1]
GoldenResult == ia_search.st.r[ia_search.st.min_index + 2]

\* C17: for a strictly unimodal objective the search of one variable keeps
\* the minimiser inside [r0, r3] at every iteration, and the point it
\* returns is within tol of the minimiser
C17_MinimiserBracketed ==
    ia_search.kind \in {"golden", "golden returned"} =>
        /\ ia_search.st.r[1] <= ia_search.c
        /\ ia_search.c <= ia_search.st.r[4]
        /\ ia_search.kind = "golden returned" =>
               ~Exceeds(GoldenResult - ia_search.c, ia_search.tol)

\* (x-5)^2 on [0, 10] searched with tol 0.01: the search has returned
C17_Witness ==
    /\ ia_search.kind = "golden returned"
    /\ ia_search.shape = "parabola"
    /\ ia_search.c = 5 * Fine
    /\ ia_search.tol = TolDen * (Fine \div 100)
    /\ ia_search.st.r[1] < ia_search.st.r[4]
    /\ GoldenResult \in (5 * Fine - Fine \div 100)..(5 * Fine + Fine \div 100)

(***************************************************************************)
(* Claims about the bounds of the searches, checked under SpecImageAnalysis*)
(***************************************************************************)
\* the step is a call setFiberCenter(method, tol, test_range, radius)
SearchCalled(method) ==
    /\ ia_call'.op = "setFiberCenter"
    /\ ia_call'.method = method

\* r[0] and r[3] of the radius search the step runs
CalledRadiusBounds ==
    LET test_range == ia_call'.args.test_range
    IN  RadiusBounds(IF test_range = None THEN Obj ELSE EnsureDiameter(Obj),
                     test_range)

\* x[0], x[3], y[0] and y[3] of the centre search the step runs
CalledCircleBounds ==
    LET test_range == ia_call'.args.test_range
    IN  CircleBounds(IF test_range = None THEN Obj ELSE EnsureEdgeCenter(Obj),
                     ia_call'.args.radius[1], test_range)

\* C18: a search whose initial upper bound is not greater than its lower
\* bound fails with an error: the radius search when r3 <= r0, the centre
\* search when x3 <= x0 or y3 <= y0
C18_InvalidIntervalFails ==
    [][/\ SearchCalled("radius") =>
            (CalledRadiusBounds.r3 <= CalledRadiusBounds.r0
                 => ia_call'.outcome # "ok")
       /\ SearchCalled("circle") =>
            ((\/ CalledCircleBounds.x3 <= CalledCircleBounds.x0
              \/ CalledCircleBounds.y3 <= CalledCircleBounds.y0)
                 => ia_call'.outcome # "ok")]_vars

\* C19: the centre search starts from bounds with
\* radius <= x0 <= x3 <= width - radius and radius <= y0 <= y3 <= height - radius,
\* and the centre it returns lies inside them
C19_BoundsRespectRadius ==
    ia_search.kind \in {"circle", "circle returned"} =>
        LET b == ia_search.bounds
            radius == ia_search.radius
        IN  /\ radius <= b.x0 /\ b.x0 <= b.x3 /\ b.x3 <= Width * Scale - radius
            /\ radius <= b.y0 /\ b.y0 <= b.y3 /\ b.y3 <= Height * Scale - radius
            /\ ia_search.kind = "circle returned" =>
                   /\ b.x0 <= ia_center["circle"].x[1]
                   /\ ia_center["circle"].x[1] <= b.x3
                   /\ b.y0 <= ia_center["circle"].y[1]
                   /\ ia_center["circle"].y[1] <= b.y3

\* the radius the edge method finds for the image
EdgeRadius == SetFiberCenterEdgeMethod(Obj).diameter["edge"][1] \div 2

\* C20: the radius search starts from [0, min(height, width)/2] when no
\* test_range is given and from [max(0, r_e - test_range/2), r_e + test_range/2]
\* when one is given, r_e being the radius the edge method finds, whatever
\* the cache holds at the call
C20_RadiusBracket ==
    [][SearchCalled("radius") =>
          LET b == CalledRadiusBounds
              test_range == ia_call'.args.test_range
          IN  IF test_range = None
              THEN b.r0 = 0 /\ b.r3 = (Lower(Height, Width) * Scale) \div 2
              ELSE /\ b.r0 = Higher(EdgeRadius - test_range[1] \div 2, 0)
                   /\ b.r3 = EdgeRadius + test_range[1] \div 2]_vars

(***************************************************************************)
(* Claims about saved data, checked under SpecSaveLoad                     *)
(***************************************************************************)
\* the result the saved data holds for a query of a method, None if none
SavedResult(query, method) ==
    LET data == ia_saved[1]
    IN  CASE query = "getFiberCenter" ->
                 IF data.center[method].x = None THEN None
                 ELSE Some(<<Rat(data.center[method].y[1]),
                             Rat(data.center[method].x[1])>>)
          [] query = "getFiberDiameter" ->
                 IF data.diameter[method] = None THEN None
                 ELSE Some(<<Rat(data.diameter[method][1])>>)
          [] query = "getFiberCentroid" ->
                 IF data.centroid[method].x = None THEN None
                 ELSE Some(<<data.centroid[method].y[1],
                             data.centroid[method].x[1]>>)

\* the step is a query of the object just restored
LoadedQueried ==
    /\ ia_call.op = "loadData"
    /\ ia_call'.op \in {"getFiberCenter", "getFiberDiameter", "getFiberCentroid"}

\* C21: loading saved data restores the image info, analysis info, edges,
\* centers, diameters, centroids and array sums that were saved, and a query
\* of the restored object for a result that was cached at the save returns
\* the saved value and computes nothing
C21_SaveLoadRoundTrip ==
    [][/\ ia_call'.op = "loadData" => SavedData(Obj)' = ia_saved[1]
       /\ (LoadedQueried /\ SavedResult(ia_call'.op, ia_call'.method) # None) =>
              /\ ia_call'.outcome = "ok"
              /\ ia_call'.returned = SavedResult(ia_call'.op, ia_call'.method)
              /\ SavedData(Obj)' = ia_saved[1]]_vars

\* the pixel values a query returns: what is stored for the resolved method
StoredValues(call, center, diameter, centroid) ==
    CASE call.op = "getFiberCenter" ->
             <<Rat(center[call.resolved].y[1]), Rat(center[call.resolved].x[1])>>
      [] call.op = "getFiberDiameter" -> <<Rat(diameter[call.resolved][1])>>
      [] call.op = "getFiberCentroid" ->
             <<centroid[call.resolved].y[1], centroid[call.resolved].x[1]>>

\* the call returned values times pixel_size / magnification
InMicrons(call, values) ==
    /\ call.outcome = "ok"
    /\ call.returned # None
    /\ DOMAIN call.returned[1] = DOMAIN values
    /\ \A i \in DOMAIN values :
           RMul(call.returned[1][i], Rat(ia_magnification[1]))
               = RMul(values[i], Rat(ia_pixel_size[1]))

UnitsStep ==
    ia_call'.op \in Queries =>
        (PixelQuery(Obj, ia_call'.op, ia_call'.method, ia_call'.args).outcome = "ok"
            => LET values == StoredValues(ia_call', ia_center', ia_diameter',
                                          ia_centroid')
               IN  IF ia_call'.units = "pixels"
                   THEN /\ ia_call'.outcome = "ok"
                        /\ ia_call'.returned = Some(values)
                   ELSE IF ia_pixel_size = None \/ ia_magnification = None
                   THEN /\ ia_call'.outcome = "RuntimeError"
                        /\ ia_call'.returned = None
                   ELSE InMicrons(ia_call', values))

\* C22: a centre, diameter or centroid query whose pixel value is available
\* returns, in microns, that value times pixel_size / magnification, raises
\* the missing-metadata error when pixel size or magnification is None, and
\* in pixels returns the stored value whatever the metadata
C22_MicronsConversion == [][UnitsStep]_vars

\* a query in microns returned values that differ from the pixel values
C22_Witness ==
    /\ ia_call.op \in Queries
    /\ ia_call.units = "microns"
    /\ ia_call.outcome = "ok"
    /\ ia_call.returned # None
    /\ ia_call.returned
           # Some(StoredValues(ia_call, ia_center, ia_diameter, ia_centroid))

\* the four points of a bracket are in order and the interior points sit at
\* the golden-section positions, to within the rounding of one position
GoldenPoints(r) ==
    /\ r[1] < r[2] /\ r[2] < r[3] /\ r[3] < r[4]
    /\ Abs(r[2] - (r[1] + TimesOneMinusPhi(r[4] - r[1]))) <= 1
    /\ Abs(r[3] - (r[1] + TimesPhi(r[4] - r[1]))) <= 1

\* the radius search is at line 580, before or after an iteration
InRadiusLoop == ia_search.kind = "radius"

NarrowedBracket ==
    RadiusIterated =>
        /\ ia_search.st.r[1] <= ia_search'.st.r[1]
        /\ ia_search'.st.r[4] <= ia_search.st.r[4]

\* C23: at the start of the radius search and after every iteration
\* r0 < r1 < r2 < r3 with r1 = r0 + (1-phi)(r3-r0) and r2 = r0 + phi(r3-r0),
\* and [r0, r3] lies within the bracket of the iteration before
C23_GoldenBracket ==
    /\ [](InRadiusLoop => GoldenPoints(ia_search.st.r))
    /\ [][NarrowedBracket]_vars

\* the sums of the centre search are those of the corners they are stored for
CornerSumsAttached ==
    ia_search.kind = "circle" =>
        \A c \in Corners :
            ia_search.st.array_sum[c[1]][c[2]]
                = RemovedCircleSum(ia_search.st.x[c[2] + 2], ia_search.st.y[c[1] + 2],
                                   ia_search.radius)

\* the sums of the radius search are those of r1 and r2
RadiusSumsAttached ==
    /\ ia_search.kind = "radius" =>
           \A k \in 0..1 :
               ia_search.st.array_sum[k + 1]
                   = RadiusTrial(ia_search.st.o, ia_search.st.r[k + 2],
                                 ia_search.tol, ia_search.st.half_range).sum
    /\ ia_search.kind = "golden" =>
           \A k \in 0..1 :
               ia_search.st.array_sum[k + 1]
                   = Objective(ia_search.shape, ia_search.c, ia_search.st.r[k + 2])

GoldenIterated == ia_search.kind = "golden" /\ ia_search'.kind = "golden"

OneNewRadius ==
    RadiusIterated \/ GoldenIterated =>
        Cardinality(ia_search'.st.evaluated) = 1

\* C24: in every state of either loop the stored sums are the objective at
\* the points they are stored for (r1 and r2; the corners (x[i+1], y[j+1])),
\* and an iteration of the search of one variable evaluates one new point
C24_SumsStayAttached ==
    /\ [](CornerSumsAttached /\ RadiusSumsAttached)
    /\ [][OneNewRadius]_vars

\* an iteration of the centre search carried a sum over to another corner,
\* between corners whose sums differ
C24_Witness ==
    /\ ia_search.kind = "circle"
    /\ ia_search.st.evaluated # Corners
    /\ \E c, d \in Corners :
           ia_search.st.array_sum[c[1]][c[2]] # ia_search.st.array_sum[d[1]][d[2]]

\* the corners an iteration of the centre search did not evaluate
Carried(st) == Corners \ st.evaluated

ThreeCarried ==
    CircleIterated =>
        /\ Cardinality(Carried(ia_search'.st)) = 3
        /\ Cardinality(ia_search'.st.evaluated) = 1

\* C25: every iteration of the centre search carries three of the four
\* corner sums over and evaluates exactly one corner
C25_ThreeCornersCarried == [][ThreeCarried]_vars

OneCarried ==
    CircleIterated =>
        LET old == ia_search.st.min_index
            opposite == <<1 - old[1], 1 - old[2]>>
        IN  /\ Carried(ia_search'.st) = {opposite}
            /\ Cardinality(ia_search'.st.evaluated) = 3
            /\ ia_search'.st.array_sum[opposite[1]][opposite[2]]
                   = ia_search.st.array_sum[old[1]][old[2]]
            /\ ia_search'.st.x[opposite[2] + 2] = ia_search.st.x[old[2] + 2]
            /\ ia_search'.st.y[opposite[1] + 2] = ia_search.st.y[old[1] + 2]

\* C25 as the code has it: every iteration of the centre search carries one
\* sum over, that of the minimal corner, which becomes the opposite corner of
\* the new bracket, and evaluates the three other corners
C25_OneCornerCarried == [][OneCarried]_vars

\* the centre search has run an iteration with three corners evaluated
C25_Witness ==
    /\ ia_search.kind = "circle"
    /\ Cardinality(ia_search.st.evaluated) = 3

\* the place of the corner [j, i] in row-major order
RowMajor(c) == 2 * c[1] + c[2]

\* min_index of the centre search is the first of the minimal corners
FirstMinimalCorner ==
    ia_search.kind = "circle" =>
        LET sums == ia_search.st.array_sum
            m == ia_search.st.min_index
        IN  \A c \in Corners :
               /\ sums[m[1]][m[2]] <= sums[c[1]][c[2]]
               /\ sums[c[1]][c[2]] = sums[m[1]][m[2]] => RowMajor(m) <= RowMajor(c)

\* the two sums of the search of one variable are equal
Tie1D ==
    /\ ia_search.kind \in {"radius", "golden"}
    /\ ia_search.st.array_sum[1] = ia_search.st.array_sum[2]

\* on a tie the iteration keeps r0 and moves r3 to r2
TieShrinksToLower ==
    Tie1D /\ (RadiusIterated \/ GoldenIterated) =>
        /\ ia_search'.st.r[1] = ia_search.st.r[1]
        /\ ia_search'.st.r[4] = ia_search.st.r[3]
        /\ ia_search'.st.r[3] = ia_search.st.r[2]

\* C26: ties go to the lowest index: with f(r1) = f(r2) the search of one
\* variable has min_index 0 and shrinks towards r1 (r3 := r2); among equal
\* minimal corners the centre search takes the first in row-major order
C26_TiesToLowestIndex ==
    /\ [](FirstMinimalCorner /\ (Tie1D => ia_search.st.min_index = 0))
    /\ [][TieShrinksToLower]_vars

\* the centre search has equal sums at two minimal corners
Tie2D ==
    /\ ia_search.kind = "circle"
    /\ \E c \in Corners :
           /\ c # ia_search.st.min_index
           /\ ia_search.st.array_sum[c[1]][c[2]]
                  = ia_search.st.array_sum[ia_search.st.min_index[1]]
                                          [ia_search.st.min_index[2]]

\* the search of one variable is on a tie with an iteration to run
C26_Witness ==
    /\ Tie1D
    /\ ia_search.st.min_index = 0
    /\ RadiusContinues(ia_search.st, ia_search.tol)

\* the radius search has returned and stored its results
RadiusReturned == ia_search.kind = "radius returned"

\* the centre the circle method finds for the radius r, with the tol and
\* test_range of the radius search
CentreFor(r) ==
    SetFiberCenterCircleMethod(Obj, r, ia_search.tol,
                               ia_search.st.half_range).center["circle"]

\* C27: when the radius method returns, its stored centre is the one the
\* circle method finds for the returned radius, diameter / 2
C27_CentreOfReturnedRadius ==
    RadiusReturned => ia_center["radius"] = CentreFor(ia_diameter["radius"][1] \div 2)

\* C28: after the edge method on an image with at least one column maximum
\* and one row maximum above the threshold, 0 <= left <= right < width and
\* 0 <= top <= bottom < height, and the edge diameter is not negative
C28_EdgesOrdered ==
    (EdgesSet /\ BrightColumns # {} /\ BrightRows # {})
    => /\ 0 <= ia_edges.left[1] /\ ia_edges.left[1] <= ia_edges.right[1]
       /\ ia_edges.right[1] < Width
       /\ 0 <= ia_edges.top[1] /\ ia_edges.top[1] <= ia_edges.bottom[1]
       /\ ia_edges.bottom[1] < Height
       /\ ia_diameter["edge"][1] >= 0

\* the methods a get_fiber_data call looks at: the one given, or the ones a
\* query without a method can resolve to
MethodsOfCall(method) == IF method = NoMethod THEN DataMethods ELSE {method}

\* get_fiber_data runs on an object with nothing cached for its method
FreshData ==
    /\ fi_call'.query = "data"
    /\ \A m \in MethodsOfCall(fi_call'.method) :
           fi_center[m] = None /\ fi_diameter[m] = None

CachedTogether ==
    \A m \in Methods : (ia_center[m].x # None) <=> (ia_diameter[m] # None)

\* getFiberData without a method returned the centre and the diameter that
\* are stored for one and the same method
SameMethodData ==
    (/\ ia_call'.op = "getFiberData"
     /\ ia_call'.method = NoMethod
     /\ ia_call'.outcome = "ok")
    => \E m \in Methods :
          /\ ia_center'[m].x # None /\ ia_diameter'[m] # None
          /\ ia_call'.returned
                 = Some(<<Rat(ia_center'[m].y[1]), Rat(ia_center'[m].x[1]),
                          Rat(ia_diameter'[m][1])>>)

\* C30: after any sequence of centre and diameter computations a method has
\* a cached centre if and only if it has a cached diameter, and getFiberData
\* without a method returns the centre and the diameter of the same method
C30_CentreAndDiameterOfOneMethod ==
    /\ []CachedTogether
    /\ [][SameMethodData]_vars

====
